---- MODULE Spec2Model ----
(***************************************************************************)
(* Model of the SSI services: the wallet backend (WalletBackend/index.js,  *)
(* second part of src/WalletBackend/walletKeys.js), the issuer service     *)
(* (Issuer/index.js), the verifier service (Verifier/index.js, first part  *)
(* of src/unnamed/part_000) and the on-chain registry they share           *)
(* (Contracts/contracts/SSIRegistry.sol).                                  *)
(*                                                                         *)
(* Each service is a single-threaded Node process: a handler runs without  *)
(* interruption from one `await` to the next, and any other handler may run*)
(* while it is suspended.  Each action below is one such segment.  A       *)
(* registry query is an eth_call evaluated at one instant; it is read in   *)
(* the segment that consumes its answer.                                   *)
(*                                                                         *)
(* Spec is the wallet with its registry under concurrent calls; Pipeline   *)
(* is the three services together, the registry being written by the       *)
(* issuer service only.                                                    *)
(***************************************************************************)
EXTENDS Integers, Sequences, FiniteSets, TLC

\* ---------------------------------------------------------------- bounds
MaxStoreCalls == 1      \* /store-credential handlers that can be in flight
MaxRespondCalls == 2    \* /respond handlers that can be in flight
MaxRequests == 1        \* proof requests ever created
MaxClock == 1           \* last instant of the wall clock
MaxIssuerCalls == 1     \* /issue and /revoke handlers that can be in flight
MaxVerifyCalls == 1     \* /verify-vp handlers that can be in flight
MaxDeskRequests == 2    \* proof requests ever created at the desk
MaxPipelineResponds == 1 \* /respond handlers in flight in Pipeline

StoreCalls == 1..MaxStoreCalls
RespondCalls == 1..MaxRespondCalls
IssuerCalls == 1..MaxIssuerCalls
VerifyCalls == 1..MaxVerifyCalls
PipelineRespondCalls == 1..MaxPipelineResponds

\* ------------------------------------------------------------ JS values
\* An optional value is <<>> (undefined / null) or <<v>>.
None == <<>>
Some(v) == <<v>>

\* A JS object with string keys is the sequence of its <<key, value>>
\* pairs in insertion order.
Keys(obj) == {obj[i][1] : i \in 1..Len(obj)}
Has(obj, k) == k \in Keys(obj)
Get(obj, k) == obj[CHOOSE i \in 1..Len(obj) : obj[i][1] = k][2]

\* Put adding a second property of the same name.
PutAppend(obj, k, v) == Append(obj, <<k, v>>)

\* obj[k] = v : replaces the value in place, or appends a new property.
Put(obj, k, v) ==
    IF Has(obj, k)
      THEN [i \in 1..Len(obj) |-> IF obj[i][1] = k THEN <<k, v>> ELSE obj[i]]
      ELSE Append(obj, <<k, v>>)

\* Object.values(obj)
Values(obj) == [i \in 1..Len(obj) |-> obj[i][2]]

\* obj.k as an optional: None when obj has no own property k.
Field(obj, k) == IF Has(obj, k) THEN Some(Get(obj, k)) ELSE None

\* obj without its property k (a property left out of a request body).
Without(obj, k) == SelectSeq(obj, LAMBDA p : p[1] # k)

\* Names every object inherits from Object.prototype; of these the model
\* keeps __proto__.  `k in obj` and `obj[k] !== undefined` hold for them,
\* and `obj[k] = v` on __proto__ sets the prototype, adding no property.
ObjectPrototype == {"__proto__"}
In(k, obj) == Has(obj, k) \/ k \in ObjectPrototype
Assign(obj, k, v) == IF k \in ObjectPrototype THEN obj ELSE Put(obj, k, v)

\* new Date(t).toISOString(): one string per instant.
toISOString(t) == <<"iso", t>>

\* JSON.stringify of an object of strings: the properties in insertion
\* order (two objects serialize alike iff they list the same pairs in the
\* same order).
JSONstringify(obj) == <<"json", obj>>

\* crypto.createHash("sha256").update(s).digest("hex"), collision free.
sha256hex(s) == <<"sha256", s>>

\* ethers.zeroPadValue("0x" + hex, 32) of a 64-digit digest: the bytes32 key.
zeroPadValue(hex) == <<"bytes32", hex>>

\* ------------------------------------------------------------ addresses
\* An address string is <<account, form>>; the registry is keyed by the
\* account (20 bytes), whatever the letter case of the string.
Accounts == {1, 2}
Stranger == 0                      \* an account nobody holds the key of
Forms == {"checksum", "lower"}
AddressStrings == Accounts \X Forms
toLowerCase(addr) == <<addr[1], "lower">>
getAddress(addr) == addr[1]

walletAddress == <<9, "checksum">>  \* walletData.address

\* wallet.signMessage(m): a signature remembers who signed what.
signMessage(account, m) == <<"sig", account, m>>
Malformed == <<"sig", Stranger, <<"not-a-signature">>>>
\* ethers.verifyMessage(m, sig): the signer when sig is over m, otherwise
\* the address of an unrelated key.
verifyMessage(m, sig) ==
    IF sig[3] = m THEN <<sig[2], "checksum">> ELSE <<Stranger, "checksum">>
IsWellFormed(sig) == sig # Malformed

\* --------------------------------------------------------------- claims
\* A string the code takes apart is the sequence of its characters.
DobJohn == <<"1","9","9","0","-","0","1","-","0","1">>     \* "1990-01-01"
PanJohn == <<"A","B","C","D","E","1","2","3","4","F">>     \* "ABCDE1234F"

\* Credential payloads (vc.vc) a caller may submit.
ClaimsJohn == << <<"name", "John Doe">>, <<"dob", DobJohn>>,
                 <<"pan", PanJohn>>, <<"issuedAt", toISOString(0)>> >>
ClaimsJane == << <<"name", "Jane Smith">>, <<"issuedAt", toISOString(0)>> >>
ClaimsSet == {ClaimsJohn, ClaimsJane}
\* Claims with neither dob nor pan that carry properties named like the
\* derived attributes.
ClaimsEve == << <<"name", "Eve Roe">>, <<"over18", "true">>,
                <<"panLast4", "0000">>, <<"issuedAt", toISOString(0)>> >>

\* Dates of birth and pans of the credentials the derivation rules are
\* tried on: born 18 years before the first instant of the clock, one day
\* and two days later; a pan of two and one of four characters.
DobEighteen == <<"2","0","0","7","-","0","1","-","0","1">>     \* "2007-01-01"
DobEveOfEighteen == <<"2","0","0","7","-","0","1","-","0","2">>
DobTwoDaysShort == <<"2","0","0","7","-","0","1","-","0","3">>
\* Dates of birth after the first instant of the clock: a year and twenty
\* years ahead.
DobNextYear == <<"2","0","2","6","-","0","1","-","0","1">>
DobInTwentyYears == <<"2","0","4","5","-","0","1","-","0","1">>
Dobs == {DobJohn, DobEighteen, DobEveOfEighteen, DobTwoDaysShort,
         DobNextYear, DobInTwentyYears}
Pans == {PanJohn, <<"A", "B">>, <<"2", "3", "4", "F">>}
DerivableClaims ==
    {<< <<"name", "John Doe">>, <<"dob", dob>>, <<"pan", pan>>,
        <<"issuedAt", toISOString(0)>> >> : dob \in Dobs, pan \in Pans}

\* ----------------------------------------------------------------- dates
\* Days since 1970-01-01 of a civil date, and the year of a day number.
DaysFromCivil(y0, m, d) ==
    LET y == IF m <= 2 THEN y0 - 1 ELSE y0
        era == y \div 400
        yoe == y - era * 400
        mp == IF m > 2 THEN m - 3 ELSE m + 9
        doy == (153 * mp + 2) \div 5 + d - 1
        doe == yoe * 365 + yoe \div 4 - yoe \div 100 + doy
    IN  era * 146097 + doe - 719468

YearOfDay(z0) ==
    LET z == z0 + 719468
        era == z \div 146097
        doe == z - era * 146097
        yoe == (doe - doe \div 1460 + doe \div 36524 - doe \div 146096) \div 365
        doy == doe - (365 * yoe + yoe \div 4 - yoe \div 100)
        mp == (5 * doy + 2) \div 153
        m == IF mp < 10 THEN mp + 3 ELSE mp - 9
    IN  yoe + era * 400 + (IF m <= 2 THEN 1 ELSE 0)

Digit(c) == CASE c = "0" -> 0 [] c = "1" -> 1 [] c = "2" -> 2 [] c = "3" -> 3
              [] c = "4" -> 4 [] c = "5" -> 5 [] c = "6" -> 6 [] c = "7" -> 7
              [] c = "8" -> 8 [] c = "9" -> 9
RECURSIVE Number(_)
Number(s) == IF s = <<>> THEN 0
             ELSE 10 * Number(SubSeq(s, 1, Len(s) - 1)) + Digit(s[Len(s)])

Abs(n) == IF n < 0 THEN -n ELSE n

\* The day Date.now() falls on at instant t of the model's clock.
DayZero == DaysFromCivil(2025, 1, 1)
Date_now(t) == DayZero + t

\* computeAge(dobStr) evaluated at instant t, in whole days:
\* the year of the date (epoch + elapsed time), minus 1970, in absolute value.
computeAge(dobStr, t) ==
    LET y == Number(SubSeq(dobStr, 1, 4))
        m == Number(SubSeq(dobStr, 6, 7))
        d == Number(SubSeq(dobStr, 9, 10))
        dob == DaysFromCivil(y, m, d)
        diff == Date_now(t) - dob
    IN  Abs(YearOfDay(diff) - 1970)

\* pan.slice(-4)
sliceLast4Padded(s) ==
    IF Len(s) < 4 THEN [i \in 1..(4 - Len(s)) |-> " "] \o s
    ELSE SubSeq(s, Len(s) - 3, Len(s))
sliceLast4(s) == IF Len(s) <= 4 THEN s ELSE SubSeq(s, Len(s) - 3, Len(s))

\* ------------------------------------------------------------ responses
\* res.status(code).json({error}) as <<code, error>>; res.json({ok: true}) is Ok.
Ok == <<200, "ok">>
InvalidVCPayload == <<400, "Invalid VC payload">>
HashMismatch == <<400, "Credential hash mismatch">>
InvalidSignatureFormat == <<400, "Invalid issuer signature format">>
SignatureMismatch ==
    <<400, "Issuer signature does not match provided issuer public key">>
UntrustedIssuer == <<400, "Issuer is NOT trusted on-chain">>
NotIssuedOnStore ==
    <<400, "Credential hash not found on blockchain (not issued by issuer)">>
RevokedOnStore == <<400, "Credential has been revoked on-chain">>
StoreInternalError == <<500, "Internal error storing credential">>
MissingRequestFields == <<400, "Missing verifierId or attributes">>
MissingRespondFields == <<400, "Missing requestId or approve (boolean)">>
NotFound == <<404, "Request with the given requestId not found">>
AlreadyResolved == <<400, "Request already handled">>
NoMatch ==
    <<400, "No credential in wallet can fulfill the requested attributes">>
NotIssued == <<400, "Credential hash not found on blockchain (not issued)">>
Revoked == <<400, "Credential is revoked">>
UnsupportedAttribute(attr) ==
    <<400, "Attribute cannot be derived from selected credential", attr>>
RespondInternalError == <<500, "Failed to respond to request">>

\* ---------------------------------------------------------------- state
VARIABLES
    trustedIssuers,      \* SSIRegistry.trustedIssuers: accounts mapped to true
    issuedCredentials,   \* SSIRegistry.issuedCredentials: keys mapped to true
    revokedCredentials,  \* SSIRegistry.revokedCredentials: keys mapped to true
    credentials,         \* storage.credentials
    requests,            \* storage.requests
    uuids,               \* the values uuidv4() has yet to return
    now,                 \* the wall clock read by new Date()
    storeCalls,          \* the /store-credential handlers
    respondCalls,        \* the /respond handlers
    response,            \* the HTTP response sent in the last step, if any
    resolutions,         \* history: per request id, the /respond calls that
                         \*   answered ok after writing its status
    signatures,          \* history: per request id, the presentations the
                         \*   wallet key has signed
    issuerService,       \* the issuer service: starting, listening or down
    issuerCalls,         \* the /issue and /revoke handlers
    verifyCalls,         \* the /verify-vp handlers
    revokeAcked,         \* history: the registry keys /revoke has answered
                         \*   success for
    verdict              \* history: the last answer of /verify-vp that
                         \*   rested on registry queries, with the
                         \*   presentation and the registry it was given for

\* The state of the issuer and verifier services.
serviceVars == <<issuerService, issuerCalls, verifyCalls, revokeAcked, verdict>>

vars == <<trustedIssuers, issuedCredentials, revokedCredentials, credentials,
          requests, uuids, now, storeCalls, respondCalls, response,
          resolutions, signatures, issuerService, issuerCalls, verifyCalls, revokeAcked,
          verdict>>

\* ------------------------------------------------------------- registry
owner == "owner"                    \* msg.sender of the constructor
Callers == {owner, "other"}
RegistrableIssuers == {1}           \* accounts passed to registerIssuer

isIssuerTrusted(issuer) == issuer \in trustedIssuers
isCredentialIssued(credentialHash) == credentialHash \in issuedCredentials
isCredentialRevoked(credentialHash) == credentialHash \in revokedCredentials

\* onlyOwner letting every sender through.
onlyOwnerAnyone(sender) == TRUE
\* modifier onlyOwner: require(msg.sender == owner).
onlyOwner(sender) == sender = owner

\* registerIssuer flipping the flag instead of setting it.
registerIssuerToggle(sender, issuer) ==
    /\ trustedIssuers' =
         IF ~onlyOwner(sender) THEN trustedIssuers
         ELSE IF issuer \in trustedIssuers THEN trustedIssuers \ {issuer}
         ELSE trustedIssuers \cup {issuer}
    /\ UNCHANGED <<issuedCredentials, revokedCredentials>>

registerIssuer(sender, issuer) ==
    /\ trustedIssuers' = IF onlyOwner(sender)
                           THEN trustedIssuers \cup {issuer}
                           ELSE trustedIssuers
    /\ UNCHANGED <<issuedCredentials, revokedCredentials>>

addCredential(sender, credentialHash) ==
    /\ issuedCredentials' = IF onlyOwner(sender)
                              THEN issuedCredentials \cup {credentialHash}
                              ELSE issuedCredentials
    /\ UNCHANGED <<trustedIssuers, revokedCredentials>>

\* revokeCredential flipping the flag instead of setting it.
revokeCredentialToggle(sender, credentialHash) ==
    /\ revokedCredentials' =
         IF ~onlyOwner(sender) THEN revokedCredentials
         ELSE IF credentialHash \in revokedCredentials
           THEN revokedCredentials \ {credentialHash}
         ELSE revokedCredentials \cup {credentialHash}
    /\ UNCHANGED <<trustedIssuers, issuedCredentials>>

revokeCredential(sender, credentialHash) ==
    /\ revokedCredentials' = IF onlyOwner(sender)
                               THEN revokedCredentials \cup {credentialHash}
                               ELSE revokedCredentials
    /\ UNCHANGED <<trustedIssuers, issuedCredentials>>

\* The credentials whose hash the owner may record or revoke.
IssuableClaims == {ClaimsJohn}
RegistryKeys ==
    {zeroPadValue(sha256hex(JSONstringify(c))) : c \in IssuableClaims}

\* A transaction sent to the registry by any account.
RegistryTx ==
    /\ response = None
    /\ \E sender \in Callers :
          \/ \E issuer \in RegistrableIssuers : registerIssuer(sender, issuer)
          \/ \E k \in RegistryKeys : addCredential(sender, k)
          \/ \E k \in RegistryKeys : revokeCredential(sender, k)
    /\ UNCHANGED <<credentials, requests, uuids, now, storeCalls,
                   respondCalls, response, resolutions, signatures>>
    /\ UNCHANGED serviceVars

\* The wall clock advances.
Tick ==
    /\ response = None
    /\ now < MaxClock
    /\ now' = now + 1
    /\ UNCHANGED <<trustedIssuers, issuedCredentials, revokedCredentials,
                   credentials, requests, uuids, storeCalls, respondCalls,
                   response, resolutions, signatures>>
    /\ UNCHANGED serviceVars

\* ------------------------------------------------------ /store-credential
\* req.body.vc with all four fields present: a credential as account i
\* issues it, and the same with one field replaced.
Issued(claims, i) ==
    [vc |-> claims, credentialHash |-> sha256hex(JSONstringify(claims)),
     issuerPublicKey |-> <<i, "checksum">>,
     issuerSignature |-> signMessage(i, sha256hex(JSONstringify(claims)))]

\* The same claims with the first two keys in the other order.
Reordered(claims) ==
    <<claims[2], claims[1]>> \o SubSeq(claims, 3, Len(claims))

StoreInputs ==
    LET good == Issued(ClaimsJohn, 1)
    IN  {Issued(c, i) : c \in ClaimsSet, i \in Accounts}
        \cup {[good EXCEPT !.vc = c] :
                 c \in ClaimsSet \cup {Reordered(ClaimsJohn)}}
        \cup {[good EXCEPT !.issuerPublicKey = a] : a \in AddressStrings}
        \cup {[good EXCEPT !.issuerSignature = sig] :
                 sig \in {Malformed, signMessage(2, good.credentialHash)}}

\* An HTTP response: the handler that sent it, the request body it
\* answers, its own body, and the registry queries and signatures the call
\* made.
Response(handler, req, body, queries, signed) ==
    Some([handler |-> handler, req |-> req, body |-> body,
          queries |-> queries, signed |-> signed])

IdleStore == [pc |-> "idle", vc |-> None, queries |-> 0]

\* StoreLocalChecks without the comparison of the recovered signer.
StoreLocalChecksNoSigner(vc) ==
    LET computedHash == sha256hex(JSONstringify(vc.vc))
    IN  IF computedHash # vc.credentialHash THEN Some(HashMismatch)
        ELSE IF ~IsWellFormed(vc.issuerSignature)
          THEN Some(InvalidSignatureFormat)
        ELSE None

\* The checks made before the first registry query; None when all pass.
StoreLocalChecks(vc) ==
    LET computedHash == sha256hex(JSONstringify(vc.vc))
        recovered == verifyMessage(vc.credentialHash, vc.issuerSignature)
    IN  IF computedHash # vc.credentialHash THEN Some(HashMismatch)
        ELSE IF ~IsWellFormed(vc.issuerSignature)
          THEN Some(InvalidSignatureFormat)
        ELSE IF toLowerCase(recovered) # toLowerCase(vc.issuerPublicKey)
          THEN Some(SignatureMismatch)
        ELSE None

\* StoredEntry writing the hash with the prefix 0x into the entry.
StoredEntryPrefixed(vc, t) ==
    [vc |-> vc.vc, credentialHash |-> <<"0x", vc.credentialHash>>,
     issuerPublicKey |-> vc.issuerPublicKey,
     issuerSignature |-> vc.issuerSignature, storedAt |-> t]

\* The entry written under storage.credentials[credentialHash].
StoredEntry(vc, t) ==
    [vc |-> vc.vc, credentialHash |-> vc.credentialHash,
     issuerPublicKey |-> vc.issuerPublicKey,
     issuerSignature |-> vc.issuerSignature, storedAt |-> t]

StoreFinish(c, body, res) ==
    /\ storeCalls' = [storeCalls EXCEPT ![c] = IdleStore]
    /\ response' = Response("store-credential", body, res,
                            storeCalls[c].queries, FALSE)

StoreQuery(c, body, pc) ==
    /\ storeCalls' = [storeCalls EXCEPT ![c] =
                        [pc |-> pc, vc |-> body, queries |-> @.queries + 1]]
    /\ UNCHANGED response

StoreFrame == UNCHANGED <<trustedIssuers, issuedCredentials,
                          revokedCredentials, requests, uuids, now,
                          respondCalls,
                          resolutions, signatures, issuerService, issuerCalls,
                          verifyCalls, revokeAcked, verdict>>

\* A POST /store-credential arrives with some body (None: no usable vc);
\* from the start of the handler to `await contract.isIssuerTrusted`.
StoreStart(c) ==
    /\ response = None
    /\ storeCalls[c].pc = "idle"
    /\ \E body \in {None} \cup {Some(vc) : vc \in StoreInputs} :
          IF body = None
            THEN StoreFinish(c, body, InvalidVCPayload)
            ELSE LET failed == StoreLocalChecks(body[1])
                 IN  IF failed # None
                       THEN StoreFinish(c, body, failed[1])
                       ELSE StoreQuery(c, body, "awaitTrusted")
    /\ UNCHANGED credentials
    /\ StoreFrame

\* StoreTrusted going on to the next query whatever the answer.
StoreTrustedSkipped(c) ==
    /\ response = None
    /\ storeCalls[c].pc = "awaitTrusted"
    /\ \/ StoreFinish(c, storeCalls[c].vc, StoreInternalError)
       \/ StoreQuery(c, storeCalls[c].vc, "awaitIssued")
    /\ UNCHANGED credentials
    /\ StoreFrame

\* isIssuerTrusted answers; up to `await contract.isCredentialIssued`.
StoreTrusted(c) ==
    /\ response = None
    /\ storeCalls[c].pc = "awaitTrusted"
    /\ LET vc == storeCalls[c].vc[1]
       IN  \/ StoreFinish(c, storeCalls[c].vc, StoreInternalError)          \* the call throws
           \/ IF ~isIssuerTrusted(getAddress(vc.issuerPublicKey))
                THEN StoreFinish(c, storeCalls[c].vc, UntrustedIssuer)
                ELSE StoreQuery(c, storeCalls[c].vc, "awaitIssued")
    /\ UNCHANGED credentials
    /\ StoreFrame

\* isCredentialIssued answers; up to `await contract.isCredentialRevoked`.
StoreIssued(c) ==
    /\ response = None
    /\ storeCalls[c].pc = "awaitIssued"
    /\ LET vc == storeCalls[c].vc[1]
       IN  \/ StoreFinish(c, storeCalls[c].vc, StoreInternalError)
           \/ IF ~isCredentialIssued(zeroPadValue(vc.credentialHash))
                THEN StoreFinish(c, storeCalls[c].vc, NotIssuedOnStore)
                ELSE StoreQuery(c, storeCalls[c].vc, "awaitRevoked")
    /\ UNCHANGED credentials
    /\ StoreFrame

\* isCredentialRevoked answers; the credential is stored and saved.
StoreRevoked(c) ==
    /\ response = None
    /\ storeCalls[c].pc = "awaitRevoked"
    /\ LET vc == storeCalls[c].vc[1]
       IN  \/ /\ StoreFinish(c, storeCalls[c].vc, StoreInternalError)
              /\ UNCHANGED credentials
           \/ IF isCredentialRevoked(zeroPadValue(vc.credentialHash))
                THEN /\ StoreFinish(c, storeCalls[c].vc, RevokedOnStore)
                     /\ UNCHANGED credentials
                ELSE /\ credentials' = Put(credentials, vc.credentialHash,
                                            StoredEntry(vc, now))
                     /\ StoreFinish(c, storeCalls[c].vc, Ok)
    /\ StoreFrame

\* --------------------------------------------------------- /request-proof
UuidPool == {<<"uuid", i>> : i \in 1..MaxRequests}    \* values of uuidv4()
UnknownId == <<"uuid", 0>>                            \* never generated
DeskPool == {<<"uuid", i>> : i \in 1..MaxDeskRequests}
VerifierIds == {"BankXYZ"}
\* <<attributes, issuerPublicKey>> of a well-formed body.
RequestInputs == {<<<<"over18", "panLast4">>, None>>,
                  <<<<"name">>, Some(<<1, "checksum">>)>>,
                  <<<<"__proto__">>, None>>}

\* NewRequest refusing at once the names no derivation rule knows.
NewRequestValidated(requestId, verifierId, attributes, issuerPublicKey, t) ==
    [id |-> requestId, verifierId |-> verifierId, attributes |-> attributes,
     issuerPublicKey |-> issuerPublicKey,
     status |-> IF \A i \in 1..Len(attributes) :
                      attributes[i] \in {"over18", "panLast4", "name"}
                  THEN "pending" ELSE "rejected",
     createdAt |-> t]

\* The record stored under storage.requests[requestId].
NewRequest(requestId, verifierId, attributes, issuerPublicKey, t) ==
    [id |-> requestId, verifierId |-> verifierId, attributes |-> attributes,
     issuerPublicKey |-> issuerPublicKey, status |-> "pending",
     createdAt |-> t]

\* POST /request-proof: the whole handler is synchronous.
RequestProof ==
    /\ response = None
    /\ uuids # {}
    /\ \/ /\ response' = Response("request-proof", None,
                                    MissingRequestFields, 0, FALSE)
          /\ UNCHANGED <<requests, uuids>>
       \/ \E verifierId \in VerifierIds, body \in RequestInputs,
             requestId \in uuids :
            /\ requests' = Put(requests, requestId,
                               NewRequest(requestId, verifierId, body[1],
                                          body[2], now))
            /\ uuids' = uuids \ {requestId}
            /\ response' = Response("request-proof", Some(body),
                                    <<200, "ok", requestId>>, 0, FALSE)
    /\ UNCHANGED <<trustedIssuers, issuedCredentials, revokedCredentials,
                   credentials, now, storeCalls, respondCalls, resolutions,
                   signatures>>
    /\ UNCHANGED serviceVars

\* --------------------------------------------------------------- /respond
\* findMatchingCredential(attributes, issuerFilter): the first stored
\* credential, in the order of Object.values, that passes the issuer filter
\* and has every requested field; None for null.
CanFulfil(cred, attributes) ==
    \A i \in 1..Len(attributes) :
        \/ attributes[i] = "over18" /\ In("dob", cred.vc)
        \/ attributes[i] = "panLast4" /\ In("pan", cred.vc)
        \/ In(attributes[i], cred.vc)

Matches(cred, attributes, issuerFilter) ==
    /\ issuerFilter = None \/ cred.issuerPublicKey = issuerFilter[1]
    /\ CanFulfil(cred, attributes)

findMatchingCredential(attributes, issuerFilter) ==
    LET allCreds == Values(credentials)
        hits == {i \in 1..Len(allCreds) :
                    Matches(allCreds[i], attributes, issuerFilter)}
    IN  IF hits = {} THEN None
        ELSE Some(allCreds[CHOOSE i \in hits : \A j \in hits : i <= j])

\* The derive loop over the requested attributes: <<TRUE, derived>> or
\* <<FALSE, attr>> for the attribute the loop returns an error on.
RECURSIVE Derive(_, _, _, _)
Derive(claims, attributes, derived, t) ==
    IF attributes = <<>> THEN <<TRUE, derived>>
    ELSE LET attr == Head(attributes)
             rest == Tail(attributes)
         IN  IF attr = "over18"
               THEN Derive(claims, rest,
                           Put(derived, "over18",
                               IF Has(claims, "dob")
                                 THEN computeAge(Get(claims, "dob"), t) >= 18
                                 ELSE FALSE), t)
             ELSE IF attr = "panLast4"
               THEN Derive(claims, rest,
                           Put(derived, "panLast4",
                               IF Has(claims, "pan")
                                 THEN sliceLast4(Get(claims, "pan"))
                                 ELSE <<>>), t)
             ELSE IF In(attr, claims)
               THEN Derive(claims, rest,
                           Assign(derived, attr,
                                  IF Has(claims, attr) THEN Get(claims, attr)
                                  ELSE "Object.prototype"), t)
             ELSE <<FALSE, attr>>

\* VpPayload with the issuer address put in lower case.
VpPayloadNormalized(derived, vc, requestId, verifierId, t) ==
    << <<"vp", derived>>,
       <<"credentialHash", vc.credentialHash>>,
       <<"issuerPublicKey", toLowerCase(vc.issuerPublicKey)>>,
       <<"issuerSignature", vc.issuerSignature>>,
       <<"backend", << <<"address", walletAddress>>,
                       <<"timestamp", toISOString(t)>> >> >>,
       <<"requestId", requestId>>,
       <<"verifierId", verifierId>> >>

\* VpPayload carrying an id that is not the request's.
VpPayloadUnbound(derived, vc, requestId, verifierId, t) ==
    << <<"vp", derived>>,
       <<"credentialHash", vc.credentialHash>>,
       <<"issuerPublicKey", vc.issuerPublicKey>>,
       <<"issuerSignature", vc.issuerSignature>>,
       <<"backend", << <<"address", walletAddress>>,
                       <<"timestamp", toISOString(t)>> >> >>,
       <<"requestId", UnknownId>>,
       <<"verifierId", verifierId>> >>

\* vpPayload as built before signing: its properties in the order of the
\* object literal.
VpPayload(derived, vc, requestId, verifierId, t) ==
    << <<"vp", derived>>,
       <<"credentialHash", vc.credentialHash>>,
       <<"issuerPublicKey", vc.issuerPublicKey>>,
       <<"issuerSignature", vc.issuerSignature>>,
       <<"backend", << <<"address", walletAddress>>,
                       <<"timestamp", toISOString(t)>> >> >>,
       <<"requestId", requestId>>,
       <<"verifierId", verifierId>> >>

\* VP = {...vpPayload, backendSignature}
SignedVP(vpPayload) ==
    Append(vpPayload,
           <<"backendSignature",
             signMessage(getAddress(walletAddress), JSONstringify(vpPayload))>>)

\* storage.requests[requestId]: None for undefined.
Lookup(requestId) ==
    IF Has(requests, requestId) THEN Some(Get(requests, requestId)) ELSE None

\* IsMissing with the guard dropped.
IsMissingNever(found) == FALSE

\* The guard `!reqObj` of the handler.
IsMissing(found) == found = None

\* IsPending with the guard dropped.
IsPendingAlways(reqObj) == TRUE

\* The guard `reqObj.status !== "pending"` of the handler, negated.
IsPending(reqObj) == reqObj.status = "pending"

\* The three on-chain checks made on the selected credential before the
\* presentation is built.
RecheckTrusted(vc) == isIssuerTrusted(getAddress(vc.issuerPublicKey))
RecheckIssued(vc) == isCredentialIssued(zeroPadValue(vc.credentialHash))
\* RecheckRevoked with the revocation query skipped.
RecheckRevokedSkipped(vc) == FALSE
RecheckRevoked(vc) == isCredentialRevoked(zeroPadValue(vc.credentialHash))

\* Rejected and Approved with the write of the status forgotten.
RejectedNoStatus(reqObj, t) == [resolvedAt |-> t] @@ reqObj
ApprovedNoStatus(reqObj, VP, t) == [resolvedAt |-> t, vp |-> VP] @@ reqObj

\* The writes of the reject branch and of the approve branch on reqObj.
Rejected(reqObj, t) ==
    [status |-> "rejected", resolvedAt |-> t] @@ reqObj
Approved(reqObj, VP, t) ==
    [status |-> "approved", resolvedAt |-> t, vp |-> VP] @@ reqObj

\* req.body of /respond as <<requestId, approve>>; approve "absent" stands
\* for a value that is not a boolean.
RespondInputs ==
    {<<None, "true">>, <<Some(UnknownId), "absent">>}
    \cup {<<Some(id), a>> : id \in Keys(requests) \cup uuids,
                            a \in {"true", "false"}}
    \cup {<<Some(UnknownId), "true">>, <<Some(UnknownId), "false">>}

\* late is history: the call selected a credential whose revocation
\* /revoke had already answered success for.
IdleRespond ==
    [pc |-> "idle", requestId |-> None, approve |-> "absent", vc |-> None,
     vpPayload |-> None, queries |-> 0, signed |-> FALSE, late |-> FALSE]

RespondFinish(c, body, res) ==
    /\ respondCalls' = [respondCalls EXCEPT ![c] = IdleRespond]
    /\ response' = Response("respond", body, res, respondCalls[c].queries,
                            respondCalls[c].signed)

RespondQuery(c, pc) ==
    /\ respondCalls' = [respondCalls EXCEPT ![c].pc = pc, ![c].queries = @ + 1]
    /\ UNCHANGED response

\* The body <<requestId, approve>> a suspended call is answering.
BodyOf(c) == <<respondCalls[c].requestId, respondCalls[c].approve>>

RespondFrame == UNCHANGED <<trustedIssuers, issuedCredentials,
                            revokedCredentials, credentials, uuids, now,
                            storeCalls,
                            issuerService, issuerCalls, verifyCalls,
                            revokeAcked, verdict>>

\* A POST /respond arrives with some body; from the start of the handler
\* to `await contract.isIssuerTrusted`: input check, lookup, status guard,
\* the reject branch, auto-selection.
RespondStart(c) ==
    /\ response = None
    /\ respondCalls[c].pc = "idle"
    /\ \E body \in RespondInputs :
         IF body[1] = None \/ body[2] = "absent"
           THEN /\ RespondFinish(c, body, MissingRespondFields)
                /\ UNCHANGED <<requests, resolutions>>
         ELSE IF IsMissing(Lookup(body[1][1]))
           THEN /\ RespondFinish(c, body, NotFound)
                /\ UNCHANGED <<requests, resolutions>>
         ELSE IF Lookup(body[1][1]) = None       \* reqObj.status throws
           THEN /\ RespondFinish(c, body, RespondInternalError)
                /\ UNCHANGED <<requests, resolutions>>
         ELSE LET requestId == body[1][1]
                  reqObj == Lookup(requestId)[1]
              IN  IF ~IsPending(reqObj)
                    THEN /\ RespondFinish(c, body, AlreadyResolved)
                         /\ UNCHANGED <<requests, resolutions>>
                  ELSE IF body[2] = "false"
                    THEN /\ requests' = Put(requests, requestId,
                                            Rejected(reqObj, now))
                         /\ resolutions' =
                              [resolutions EXCEPT ![requestId] = @ + 1]
                         /\ RespondFinish(c, body,
                                          <<200, "Request rejected">>)
                  ELSE LET selectedVC ==
                             findMatchingCredential(reqObj.attributes,
                                                    reqObj.issuerPublicKey)
                       IN  /\ IF selectedVC = None
                                THEN RespondFinish(c, body, NoMatch)
                                ELSE /\ respondCalls' =
                                          [respondCalls EXCEPT ![c] =
                                             [IdleRespond EXCEPT
                                                !.pc = "awaitTrusted",
                                                !.requestId = body[1],
                                                !.approve = body[2],
                                                !.vc = selectedVC,
                                                !.queries = 1,
                                                !.late =
                                                  zeroPadValue(
                                                    selectedVC[1].credentialHash)
                                                  \in revokeAcked]]
                                     /\ UNCHANGED response
                           /\ UNCHANGED <<requests, resolutions>>
    /\ UNCHANGED signatures
    /\ RespondFrame

\* RespondTrusted answered only while no other call is in flight.
RespondTrustedInTurn(c) ==
    /\ response = None
    /\ respondCalls[c].pc = "awaitTrusted"
    /\ \A o \in RespondCalls \ {c} : respondCalls[o].pc = "idle"
    /\ LET vc == respondCalls[c].vc[1]
       IN  \/ RespondFinish(c, BodyOf(c), RespondInternalError)
           \/ IF ~RecheckTrusted(vc)
                THEN RespondFinish(c, BodyOf(c), UntrustedIssuer)
                ELSE RespondQuery(c, "awaitIssued")
    /\ UNCHANGED <<requests, resolutions, signatures>>
    /\ RespondFrame

\* isIssuerTrusted answers; up to `await contract.isCredentialIssued`.
RespondTrusted(c) ==
    /\ response = None
    /\ respondCalls[c].pc = "awaitTrusted"
    /\ LET vc == respondCalls[c].vc[1]
       IN  \/ RespondFinish(c, BodyOf(c), RespondInternalError)  \* it throws
           \/ IF ~RecheckTrusted(vc)
                THEN RespondFinish(c, BodyOf(c), UntrustedIssuer)
                ELSE RespondQuery(c, "awaitIssued")
    /\ UNCHANGED <<requests, resolutions, signatures>>
    /\ RespondFrame

\* RespondIssued answered only while no other call is in flight.
RespondIssuedInTurn(c) ==
    /\ response = None
    /\ respondCalls[c].pc = "awaitIssued"
    /\ \A o \in RespondCalls \ {c} : respondCalls[o].pc = "idle"
    /\ LET vc == respondCalls[c].vc[1]
       IN  \/ RespondFinish(c, BodyOf(c), RespondInternalError)
           \/ IF ~RecheckIssued(vc)
                THEN RespondFinish(c, BodyOf(c), NotIssued)
                ELSE RespondQuery(c, "awaitRevoked")
    /\ UNCHANGED <<requests, resolutions, signatures>>
    /\ RespondFrame

\* isCredentialIssued answers; up to `await contract.isCredentialRevoked`.
RespondIssued(c) ==
    /\ response = None
    /\ respondCalls[c].pc = "awaitIssued"
    /\ LET vc == respondCalls[c].vc[1]
       IN  \/ RespondFinish(c, BodyOf(c), RespondInternalError)
           \/ IF ~RecheckIssued(vc)
                THEN RespondFinish(c, BodyOf(c), NotIssued)
                ELSE RespondQuery(c, "awaitRevoked")
    /\ UNCHANGED <<requests, resolutions, signatures>>
    /\ RespondFrame

\* RespondRevoked with a revoked credential turning the request to rejected.
RespondRevokedRejects(c) ==
    /\ response = None
    /\ respondCalls[c].pc = "awaitRevoked"
    /\ LET call == respondCalls[c]
           vc == call.vc[1]
           requestId == call.requestId[1]
           reqObj == Get(requests, requestId)
           derived == Derive(vc.vc, reqObj.attributes, <<>>, now)
       IN  \/ /\ RespondFinish(c, BodyOf(c), RespondInternalError)
              /\ UNCHANGED <<signatures, requests>>
           \/ IF RecheckRevoked(vc)
                THEN /\ RespondFinish(c, BodyOf(c), Revoked)
                     /\ requests' = Put(requests, requestId,
                                        Rejected(reqObj, now))
                     /\ UNCHANGED signatures
                ELSE IF ~derived[1]
                  THEN /\ RespondFinish(c, BodyOf(c),
                                        UnsupportedAttribute(derived[2]))
                       /\ UNCHANGED <<signatures, requests>>
                ELSE /\ UNCHANGED <<response, requests>>
                     /\ respondCalls' =
                          [respondCalls EXCEPT
                             ![c].pc = "awaitSign",
                             ![c].signed = TRUE,
                             ![c].vpPayload =
                                Some(VpPayload(derived[2], vc, requestId,
                                               reqObj.verifierId, now))]
                     /\ signatures' =
                          [signatures EXCEPT ![requestId] = @ + 1]
    /\ UNCHANGED resolutions
    /\ RespondFrame

\* isCredentialRevoked answers; the attributes are derived, the payload is
\* built and wallet.signMessage is called on it.
RespondRevoked(c) ==
    /\ response = None
    /\ respondCalls[c].pc = "awaitRevoked"
    /\ LET call == respondCalls[c]
           vc == call.vc[1]
           requestId == call.requestId[1]
           reqObj == Get(requests, requestId)
           derived == Derive(vc.vc, reqObj.attributes, <<>>, now)
       IN  \/ /\ RespondFinish(c, BodyOf(c), RespondInternalError)
              /\ UNCHANGED signatures
           \/ IF RecheckRevoked(vc)
                THEN /\ RespondFinish(c, BodyOf(c), Revoked)
                     /\ UNCHANGED signatures
                ELSE IF ~derived[1]
                  THEN /\ RespondFinish(c, BodyOf(c),
                                        UnsupportedAttribute(derived[2]))
                       /\ UNCHANGED signatures
                ELSE /\ UNCHANGED response
                     /\ respondCalls' =
                          [respondCalls EXCEPT
                             ![c].pc = "awaitSign",
                             ![c].signed = TRUE,
                             ![c].vpPayload =
                                Some(VpPayload(derived[2], vc, requestId,
                                               reqObj.verifierId, now))]
                     /\ signatures' =
                          [signatures EXCEPT ![requestId] = @ + 1]
    /\ UNCHANGED <<requests, resolutions>>
    /\ RespondFrame

\* signMessage answers; the request is marked approved, the presentation is
\* attached and the storage is saved.
RespondCommit(c) ==
    /\ response = None
    /\ respondCalls[c].pc = "awaitSign"
    /\ LET call == respondCalls[c]
           requestId == call.requestId[1]
           reqObj == Get(requests, requestId)
           VP == SignedVP(call.vpPayload[1])
       IN  /\ requests' = Put(requests, requestId, Approved(reqObj, VP, now))
           /\ resolutions' = [resolutions EXCEPT ![requestId] = @ + 1]
           /\ RespondFinish(c, BodyOf(c), <<200, "ok", VP>>)
    /\ UNCHANGED signatures
    /\ RespondFrame

\* ------------------------------------------------------- issuer service
IssuerAccount == 1                         \* the account of issuer.json
issuerAddress == <<IssuerAccount, "checksum">>
\* The account the issuer's contract instance sends transactions from:
\* Hardhat account #0, which deployed the registry.
signer == owner

IssueMissingFields == <<400, "Missing fields">>
IssueError == <<500, "Error issuing credential">>
MissingCredentialHash == <<400, "Missing credentialHash">>
RevokeError == <<500, "Failed to revoke credential">>
RevokeSuccess == <<200, "Credential revoked on blockchain">>

\* A hash string is a digest or a digest behind the prefix "0x".
Prefixed(hash) == <<"0x", hash>>
IsDigest(hash) == hash[1] = "sha256"

IdleIssuer == [pc |-> "idle", arg |-> None]

IssuerFinish(c, handler, req, res) ==
    /\ issuerCalls' = [issuerCalls EXCEPT ![c] = IdleIssuer]
    /\ response' = Response(handler, req, res, 0, FALSE)

IssuerFrame == UNCHANGED <<credentials, requests, uuids, now, storeCalls,
                           respondCalls, resolutions, signatures, verifyCalls,
                           verdict>>

\* start() taken in one step, for a registry nobody else writes meanwhile:
\* initializeIssuer registers the issuer when the registry does not trust
\* it yet, then the service listens; when a call throws the error is
\* logged and the service never listens.
InitializeIssuer ==
    /\ response = None
    /\ issuerService = "starting"
    /\ \/ /\ issuerService' = "down"
          /\ UNCHANGED <<trustedIssuers, issuedCredentials, revokedCredentials>>
       \/ /\ issuerService' = "listening"
          /\ IF isIssuerTrusted(getAddress(issuerAddress))
               THEN UNCHANGED <<trustedIssuers, issuedCredentials,
                                revokedCredentials>>
               ELSE registerIssuer(signer, getAddress(issuerAddress))
    /\ UNCHANGED <<issuerCalls, revokeAcked, response>>
    /\ IssuerFrame

\* req.body of /issue: an object with some of name, dob, pan.
IssueInputs ==
    { << <<"name", "John Doe">>, <<"dob", DobJohn>>, <<"pan", PanJohn>> >>,
      << <<"name", "John Doe">>, <<"dob", DobJohn>> >> }

\* The credential object built from the body at instant t.
Credential(body, t) ==
    << <<"name", Get(body, "name")>>, <<"dob", Get(body, "dob")>>,
       <<"pan", Get(body, "pan")>>, <<"issuedAt", toISOString(t)>> >>

\* POST /issue arrives; up to `await contract.addCredential(padded)`: the
\* fields are checked, the credential is built, hashed and signed.
IssueStart(c) ==
    /\ response = None
    /\ issuerService = "listening"
    /\ issuerCalls[c].pc = "idle"
    /\ \E body \in IssueInputs :
         IF \E k \in {"name", "dob", "pan"} : ~Has(body, k)
           THEN IssuerFinish(c, "issue", Some(body), IssueMissingFields)
           ELSE /\ issuerCalls' =
                     [issuerCalls EXCEPT ![c] =
                        [pc |-> "issueSending",
                         arg |-> Some(Issued(Credential(body, now),
                                             getAddress(issuerAddress)))]]
                /\ UNCHANGED response
    /\ UNCHANGED <<trustedIssuers, issuedCredentials, revokedCredentials,
                   issuerService, revokeAcked>>
    /\ IssuerFrame

\* IssueMined with a failed transaction taken for a mined one.
IssueMinedUnchecked(c) ==
    /\ response = None
    /\ issuerCalls[c].pc = "issueSending"
    /\ LET VC == issuerCalls[c].arg[1]
       IN  \/ /\ issuerCalls' = [issuerCalls EXCEPT ![c].pc = "issueMined"]
              /\ UNCHANGED <<response, trustedIssuers, issuedCredentials,
                             revokedCredentials>>
           \/ /\ addCredential(signer, zeroPadValue(VC.credentialHash))
              /\ issuerCalls' = [issuerCalls EXCEPT ![c].pc = "issueMined"]
              /\ UNCHANGED response
    /\ UNCHANGED <<issuerService, revokeAcked>>
    /\ IssuerFrame

\* The addCredential transaction is sent and mined, or the call throws
\* (the node is unreachable, the transaction reverts).
IssueMined(c) ==
    /\ response = None
    /\ issuerCalls[c].pc = "issueSending"
    /\ LET VC == issuerCalls[c].arg[1]
       IN  \/ /\ IssuerFinish(c, "issue", issuerCalls[c].arg, IssueError)
              /\ UNCHANGED <<trustedIssuers, issuedCredentials,
                             revokedCredentials>>
           \/ /\ addCredential(signer, zeroPadValue(VC.credentialHash))
              /\ issuerCalls' = [issuerCalls EXCEPT ![c].pc = "issueMined"]
              /\ UNCHANGED response
    /\ UNCHANGED <<issuerService, revokeAcked>>
    /\ IssuerFrame

\* tx.wait() resolves and the VC is returned, or it throws.
IssueReturn(c) ==
    /\ response = None
    /\ issuerCalls[c].pc = "issueMined"
    /\ \/ IssuerFinish(c, "issue", issuerCalls[c].arg, IssueError)
       \/ IssuerFinish(c, "issue", issuerCalls[c].arg,
                       <<200, "vc", issuerCalls[c].arg[1]>>)
    /\ UNCHANGED <<trustedIssuers, issuedCredentials, revokedCredentials,
                   issuerService, revokeAcked>>
    /\ IssuerFrame

\* req.body.credentialHash of /revoke: absent, the hash of the issued
\* credential, or that hash written with the prefix 0x.
RevokeInputs ==
    {None, Some(sha256hex(JSONstringify(ClaimsJohn))),
     Some(Prefixed(sha256hex(JSONstringify(ClaimsJohn))))}

\* POST /revoke arrives; up to `await contract.revokeCredential(padded)`.
\* zeroPadValue throws on "0x" + a string that is not hex digits.
RevokeStart(c) ==
    /\ response = None
    /\ issuerService = "listening"
    /\ issuerCalls[c].pc = "idle"
    /\ \E body \in RevokeInputs :
         IF body = None
           THEN IssuerFinish(c, "revoke", body, MissingCredentialHash)
         ELSE IF ~IsDigest(body[1])
           THEN IssuerFinish(c, "revoke", body, RevokeError)
         ELSE /\ issuerCalls' = [issuerCalls EXCEPT ![c] =
                                   [pc |-> "revokeSending", arg |-> body]]
              /\ UNCHANGED response
    /\ UNCHANGED <<trustedIssuers, issuedCredentials, revokedCredentials,
                   issuerService, revokeAcked>>
    /\ IssuerFrame

\* RevokeMined with a failed transaction taken for a mined one.
RevokeMinedUnchecked(c) ==
    /\ response = None
    /\ issuerCalls[c].pc = "revokeSending"
    /\ \/ /\ issuerCalls' = [issuerCalls EXCEPT ![c].pc = "revokeMined"]
          /\ UNCHANGED <<response, trustedIssuers, issuedCredentials,
                         revokedCredentials>>
       \/ /\ revokeCredential(signer, zeroPadValue(issuerCalls[c].arg[1]))
          /\ issuerCalls' = [issuerCalls EXCEPT ![c].pc = "revokeMined"]
          /\ UNCHANGED response
    /\ UNCHANGED <<issuerService, revokeAcked>>
    /\ IssuerFrame

\* The revokeCredential transaction is sent and mined, or the call throws.
RevokeMined(c) ==
    /\ response = None
    /\ issuerCalls[c].pc = "revokeSending"
    /\ \/ /\ IssuerFinish(c, "revoke", issuerCalls[c].arg, RevokeError)
          /\ UNCHANGED <<trustedIssuers, issuedCredentials,
                         revokedCredentials>>
       \/ /\ revokeCredential(signer, zeroPadValue(issuerCalls[c].arg[1]))
          /\ issuerCalls' = [issuerCalls EXCEPT ![c].pc = "revokeMined"]
          /\ UNCHANGED response
    /\ UNCHANGED <<issuerService, revokeAcked>>
    /\ IssuerFrame

\* tx.wait() resolves and success is returned, or it throws.
RevokeReturn(c) ==
    /\ response = None
    /\ issuerCalls[c].pc = "revokeMined"
    /\ \/ /\ IssuerFinish(c, "revoke", issuerCalls[c].arg, RevokeError)
          /\ UNCHANGED revokeAcked
       \/ /\ IssuerFinish(c, "revoke", issuerCalls[c].arg, RevokeSuccess)
          /\ revokeAcked' =
               revokeAcked \cup {zeroPadValue(issuerCalls[c].arg[1])}
    /\ UNCHANGED <<trustedIssuers, issuedCredentials, revokedCredentials,
                   issuerService>>
    /\ IssuerFrame

\* ----------------------------------------------------- verifier service
MissingVp == <<400, "Missing vp">>
MalformedVP == <<400, "Malformed VP: missing fields">>
InvalidBackendSignatureFormat == <<400, "Invalid backend signature format">>
BackendSignatureMismatch ==
    <<400, "Backend signature does not match backend.address">>
InvalidIssuerSignatureFormat == <<400, "Invalid issuer signature format">>
IssuerSignatureMismatch ==
    <<400, "Issuer signature does not match issuer public key">>
IssuerNotTrusted == <<400, "Issuer not trusted on-chain">>
CredentialNotIssued == <<400, "Credential not recorded as issued on-chain">>
CredentialRevoked == <<400, "Credential has been revoked">>
VerifyInternalError == <<500, "Failed to verify VP">>
Verified(details) == <<200, "VP verified successfully", details>>

\* normalizeHash(hex): the hash string without its prefix 0x.
normalizeHash(hex) == IF hex[1] = "0x" THEN hex[2] ELSE hex
paddedHashBytes32(hex) == zeroPadValue(normalizeHash(hex))

\* JSON.stringify leaves out a property whose value is undefined: the
\* properties of an object of optionals that have a value.
Defined(obj) ==
    LET kept == SelectSeq(obj, LAMBDA p : p[2] # None)
    IN  [i \in 1..Len(kept) |-> <<kept[i][1], kept[i][2][1]>>]

\* VerifierPayload with requestId and verifierId ahead of backend.
VerifierPayloadReordered(vp) ==
    Defined(<< <<"vp", Field(vp, "vp")>>,
               <<"credentialHash", Field(vp, "credentialHash")>>,
               <<"issuerPublicKey", Field(vp, "issuerPublicKey")>>,
               <<"issuerSignature", Field(vp, "issuerSignature")>>,
               <<"requestId", Field(vp, "requestId")>>,
               <<"verifierId", Field(vp, "verifierId")>>,
               <<"backend", Field(vp, "backend")>> >>)

\* The vpPayload the verifier rebuilds from the fields of vp, in the order
\* of its object literal, as JSON.stringify sees it.
VerifierPayload(vp) ==
    Defined(<< <<"vp", Field(vp, "vp")>>,
               <<"credentialHash", Field(vp, "credentialHash")>>,
               <<"issuerPublicKey", Field(vp, "issuerPublicKey")>>,
               <<"issuerSignature", Field(vp, "issuerSignature")>>,
               <<"backend", Field(vp, "backend")>>,
               <<"requestId", Field(vp, "requestId")>>,
               <<"verifierId", Field(vp, "verifierId")>> >>)

\* The five properties of vp the shape check requires.
RequiredFields == {"credentialHash", "issuerPublicKey", "issuerSignature",
                   "backend", "backendSignature"}

\* The shape check passes.
ShapeOk(vp) == \A k \in RequiredFields : Has(vp, k)

\* RecoveredBackend taking the address the presentation names.
RecoveredBackendClaimed(vp) == Get(Get(vp, "backend"), "address")

\* The address the backend signature recovers to, and the one the issuer
\* signature recovers to.
RecoveredBackend(vp) ==
    verifyMessage(JSONstringify(VerifierPayload(vp)),
                  Get(vp, "backendSignature"))
\* RecoveredIssuer recovering over the hash written with the prefix 0x.
RecoveredIssuerPrefixed(vp) ==
    verifyMessage(Prefixed(Get(vp, "credentialHash")),
                  Get(vp, "issuerSignature"))
\* ethers.verifyMessage(credentialHash, issuerSignature)
RecoveredIssuer(vp) ==
    verifyMessage(Get(vp, "credentialHash"), Get(vp, "issuerSignature"))

\* The checks made before the first registry query, as <<outcome, calls of
\* verifyMessage made>>; the outcome is None when all pass.  Reading
\* backend.address of a backend that has none throws, which the handler's
\* catch answers.
VerifyLocalChecks(vp) ==
    IF ~ShapeOk(vp) THEN <<Some(MalformedVP), 0>>
    ELSE IF ~IsWellFormed(Get(vp, "backendSignature"))
      THEN <<Some(InvalidBackendSignatureFormat), 1>>
    ELSE IF ~Has(Get(vp, "backend"), "address")
      THEN <<Some(VerifyInternalError), 1>>
    ELSE IF toLowerCase(RecoveredBackend(vp))
              # toLowerCase(Get(Get(vp, "backend"), "address"))
      THEN <<Some(BackendSignatureMismatch), 1>>
    ELSE IF ~IsWellFormed(Get(vp, "issuerSignature"))
      THEN <<Some(InvalidIssuerSignatureFormat), 2>>
    ELSE IF toLowerCase(RecoveredIssuer(vp))
              # toLowerCase(Get(vp, "issuerPublicKey"))
      THEN <<Some(IssuerSignatureMismatch), 2>>
    ELSE <<None, 2>>

\* details of the success response.
Details(vp) ==
    [backendAddress |-> RecoveredBackend(vp),
     issuerAddress |-> RecoveredIssuer(vp),
     onChain |-> [isTrusted |-> TRUE, issued |-> TRUE, revoked |-> FALSE],
     derived |-> Field(vp, "vp")]

\* The presentations attached to requests, which GET /requests/:id hands
\* to the verifier.
Presentations ==
    {requests[i][2].vp :
        i \in {j \in 1..Len(requests) : "vp" \in DOMAIN requests[j][2]}}

\* A disclosed mapping with one value changed (a property added when there
\* is none).
TamperDisclosed(derived) ==
    IF derived = <<>> THEN << <<"name", "Mallory">> >>
    ELSE LET k == derived[Len(derived)][1]
             val == derived[Len(derived)][2]
         IN  Put(derived, k,
                 CASE k = "over18" -> ~val
                   [] k = "panLast4" ->
                        IF val = <<>> THEN <<"0">>
                        ELSE [val EXCEPT ![Len(val)] =
                                 IF @ = "0" THEN "1" ELSE "0"]
                   [] OTHER -> "Mallory")

\* vp with one field of the signed payload changed and the backend
\* signature kept.
Tamperings(vp) ==
    LET hash == Get(vp, "credentialHash")
        key == Get(vp, "issuerPublicKey")
        backend == Get(vp, "backend")
    IN  { Put(vp, "vp", TamperDisclosed(Get(vp, "vp"))),
          Put(vp, "credentialHash", Prefixed(hash)),
          Put(vp, "credentialHash", sha256hex(JSONstringify(ClaimsJane))),
          Put(vp, "issuerPublicKey",
              <<key[1], IF key[2] = "lower" THEN "checksum" ELSE "lower">>),
          Put(vp, "issuerPublicKey", <<2, "checksum">>),
          Put(vp, "issuerSignature", signMessage(2, hash)),
          Put(vp, "backend", Put(backend, "address", issuerAddress)),
          Put(vp, "backend",
              Put(backend, "timestamp",
                  toISOString(Get(backend, "timestamp")[2] + 1))),
          Put(vp, "requestId", UnknownId),
          Put(vp, "verifierId", "Mallory") }

\* vp with one property left out.
Incomplete(vp) ==
    {Without(vp, k) : k \in RequiredFields \cup {"vp", "requestId"}}
    \cup {Put(vp, "backend", Without(Get(vp, "backend"), "address"))}

\* req.body.vp of /verify-vp: absent, a presentation as the wallet attached
\* it, or one changed on the way.
VerifyInputs ==
    {None}
    \cup {Some(vp) : vp \in Presentations}
    \cup {Some(t) : t \in UNION {Tamperings(vp) : vp \in Presentations}}
    \cup {Some(t) : t \in UNION {Incomplete(vp) : vp \in Presentations}}

\* The registry as one value.
Registry == <<trustedIssuers, issuedCredentials, revokedCredentials>>

\* began is history: the registry as it was when the call arrived.
IdleVerify == [pc |-> "idle", vp |-> None, queries |-> 0, began |-> None]

\* The hash of vp was recorded revoked in the registry value reg.
RevokedIn(vp, reg) ==
    /\ Has(vp, "credentialHash")
    /\ paddedHashBytes32(Get(vp, "credentialHash")) \in reg[3]

\* late is history: the hash was recorded revoked when the call arrived.
VerifyResponse(req, body, queries, recoveries, late) ==
    Some([handler |-> "verify-vp", req |-> req, body |-> body,
          queries |-> queries, signed |-> FALSE, recoveries |-> recoveries,
          late |-> late])

\* The call is answered; the answer is remembered in verdict when the
\* registry is as it was when the call arrived, together with whether the
\* remembered answer before it was for the same presentation and registry.
VerifyFinish(c, res) ==
    /\ verifyCalls' = [verifyCalls EXCEPT ![c] = IdleVerify]
    /\ response' = VerifyResponse(verifyCalls[c].vp, res,
                                  verifyCalls[c].queries, 2,
                                  RevokedIn(verifyCalls[c].vp[1],
                                            verifyCalls[c].began[1]))
    /\ verdict' = IF res # VerifyInternalError
                       /\ verifyCalls[c].began = Some(Registry)
                    THEN Some([vp |-> verifyCalls[c].vp[1],
                               registry |-> Registry, body |-> res,
                               repeated |->
                                 /\ verdict # None
                                 /\ verdict[1].vp = verifyCalls[c].vp[1]
                                 /\ verdict[1].registry = Registry])
                    ELSE verdict

VerifyQuery(c, pc) ==
    /\ verifyCalls' = [verifyCalls EXCEPT ![c].pc = pc, ![c].queries = @ + 1]
    /\ UNCHANGED <<response, verdict>>

VerifyFrame == UNCHANGED <<trustedIssuers, issuedCredentials,
                           revokedCredentials, credentials, requests, uuids,
                           now,
                           storeCalls, respondCalls, resolutions, signatures,
                           issuerService, issuerCalls, revokeAcked>>

\* POST /verify-vp arrives with some body; from the start of the handler to
\* `await contract.isIssuerTrusted`.
VerifyStart(c) ==
    /\ response = None
    /\ verifyCalls[c].pc = "idle"
    /\ \E body \in VerifyInputs :
         IF body = None
           THEN /\ response' = VerifyResponse(body, MissingVp, 0, 0, FALSE)
                /\ UNCHANGED verifyCalls
           ELSE LET failed == VerifyLocalChecks(body[1])
                IN  IF failed[1] # None
                      THEN /\ response' =
                                VerifyResponse(body, failed[1][1], 0, failed[2],
                                               RevokedIn(body[1], Registry))
                           /\ UNCHANGED verifyCalls
                      ELSE /\ verifyCalls' =
                                [verifyCalls EXCEPT ![c] =
                                   [pc |-> "awaitTrusted", vp |-> body,
                                    queries |-> 1, began |-> Some(Registry)]]
                           /\ UNCHANGED response
    /\ UNCHANGED verdict
    /\ VerifyFrame

\* isIssuerTrusted answers; up to `await contract.isCredentialIssued`.
VerifyTrusted(c) ==
    /\ response = None
    /\ verifyCalls[c].pc = "awaitTrusted"
    /\ LET vp == verifyCalls[c].vp[1]
       IN  \/ VerifyFinish(c, VerifyInternalError)            \* it throws
           \/ IF ~isIssuerTrusted(getAddress(Get(vp, "issuerPublicKey")))
                THEN VerifyFinish(c, IssuerNotTrusted)
                ELSE VerifyQuery(c, "awaitIssued")
    /\ VerifyFrame

\* isCredentialIssued answers; up to `await contract.isCredentialRevoked`.
VerifyIssued(c) ==
    /\ response = None
    /\ verifyCalls[c].pc = "awaitIssued"
    /\ LET vp == verifyCalls[c].vp[1]
       IN  \/ VerifyFinish(c, VerifyInternalError)
           \/ IF ~isCredentialIssued(
                     paddedHashBytes32(Get(vp, "credentialHash")))
                THEN VerifyFinish(c, CredentialNotIssued)
                ELSE VerifyQuery(c, "awaitRevoked")
    /\ VerifyFrame

\* VerifyRevoked refusing a presentation it has accepted before.
VerifyRevokedOnce(c) ==
    /\ response = None
    /\ verifyCalls[c].pc = "awaitRevoked"
    /\ LET vp == verifyCalls[c].vp[1]
       IN  \/ VerifyFinish(c, VerifyInternalError)
           \/ IF \/ isCredentialRevoked(
                       paddedHashBytes32(Get(vp, "credentialHash")))
                 \/ verdict # None /\ verdict[1].vp = vp
                THEN VerifyFinish(c, CredentialRevoked)
                ELSE VerifyFinish(c, Verified(Details(vp)))
    /\ VerifyFrame

\* isCredentialRevoked answers; the verdict is returned.
VerifyRevoked(c) ==
    /\ response = None
    /\ verifyCalls[c].pc = "awaitRevoked"
    /\ LET vp == verifyCalls[c].vp[1]
       IN  \/ VerifyFinish(c, VerifyInternalError)
           \/ IF isCredentialRevoked(
                    paddedHashBytes32(Get(vp, "credentialHash")))
                THEN VerifyFinish(c, CredentialRevoked)
                ELSE VerifyFinish(c, Verified(Details(vp)))
    /\ VerifyFrame

\* ------------------------------------------- registry seen by its callers
\* The receipt of a mined transaction, and the revert of the modifier.
Mined == <<1, "mined">>
Reverted == <<0, "Only owner can perform this">>

\* What the sender of a transaction gets back.
Receipt(sender, function, argument) ==
    Response("registry", Some(<<sender, function, argument>>),
             IF onlyOwner(sender) THEN Mined ELSE Reverted, 0, FALSE)

\* A transaction sent to the registry by any account, with its receipt.
Transaction ==
    /\ response = None
    /\ \E sender \in Callers :
          \/ \E issuer \in RegistrableIssuers :
                /\ registerIssuer(sender, issuer)
                /\ response' = Receipt(sender, "registerIssuer", issuer)
          \/ \E k \in RegistryKeys :
                /\ addCredential(sender, k)
                /\ response' = Receipt(sender, "addCredential", k)
          \/ \E k \in RegistryKeys :
                /\ revokeCredential(sender, k)
                /\ response' = Receipt(sender, "revokeCredential", k)
    /\ UNCHANGED <<credentials, requests, uuids, now, storeCalls,
                   respondCalls, resolutions, signatures>>
    /\ UNCHANGED serviceVars

\* ---------------------------------------------------- issuer start, by step
StartFrame ==
    /\ UNCHANGED <<issuerCalls, revokeAcked, response>>
    /\ IssuerFrame

\* StartCheck registering whatever the registry answers.
StartCheckRegisters ==
    /\ response = None
    /\ issuerService = "starting"
    /\ issuerService' \in {"down", "registering"}
    /\ UNCHANGED <<trustedIssuers, issuedCredentials, revokedCredentials>>
    /\ StartFrame

\* start() up to the answer of `await contract.isIssuerTrusted`: the
\* registration follows when the answer is false; the call may throw.
StartCheck ==
    /\ response = None
    /\ issuerService = "starting"
    /\ \/ issuerService' = "down"
       \/ issuerService' = IF isIssuerTrusted(getAddress(issuerAddress))
                             THEN "initialized"
                             ELSE "registering"
    /\ UNCHANGED <<trustedIssuers, issuedCredentials, revokedCredentials>>
    /\ StartFrame

\* `await contract.registerIssuer(issuerAddress)`: the transaction is sent,
\* or the call throws and start() logs the error.
StartRegister ==
    /\ response = None
    /\ issuerService = "registering"
    /\ \/ /\ issuerService' = "down"
          /\ UNCHANGED <<trustedIssuers, issuedCredentials, revokedCredentials>>
       \/ /\ issuerService' = "confirming"
          /\ registerIssuer(signer, getAddress(issuerAddress))
    /\ StartFrame

\* `await tx.wait()` resolves, or throws.
StartConfirm ==
    /\ response = None
    /\ issuerService = "confirming"
    /\ issuerService' \in {"initialized", "down"}
    /\ UNCHANGED <<trustedIssuers, issuedCredentials, revokedCredentials>>
    /\ StartFrame

\* initializeIssuer has returned: app.listen(5001).
StartListen ==
    /\ response = None
    /\ issuerService = "initialized"
    /\ issuerService' = "listening"
    /\ UNCHANGED <<trustedIssuers, issuedCredentials, revokedCredentials>>
    /\ StartFrame

\* The response is written to the socket; the event loop takes the next task.
Sent ==
    /\ response # None
    /\ response' = None
    /\ UNCHANGED <<trustedIssuers, issuedCredentials, revokedCredentials,
                   credentials, requests, uuids, now, storeCalls,
                   respondCalls, resolutions, signatures>>
    /\ UNCHANGED serviceVars

\* ------------------------------------------------------- specification
Init ==
    /\ trustedIssuers = {}
    /\ issuedCredentials = {}
    /\ revokedCredentials = {}
    /\ credentials = <<>>
    /\ requests = <<>>
    /\ uuids = UuidPool
    /\ now = 0
    /\ storeCalls = [c \in StoreCalls |-> IdleStore]
    /\ respondCalls = [c \in RespondCalls |-> IdleRespond]
    /\ response = None
    /\ resolutions = [id \in UuidPool |-> 0]
    /\ signatures = [id \in UuidPool |-> 0]
    /\ issuerService = "starting"
    /\ issuerCalls = [c \in IssuerCalls |-> IdleIssuer]
    /\ verifyCalls = [c \in VerifyCalls |-> IdleVerify]
    /\ revokeAcked = {}
    /\ verdict = None

Next ==
    \/ RegistryTx
    \/ Tick
    \/ RequestProof
    \/ Sent
    \/ \E c \in StoreCalls : StoreStart(c)
    \/ \E c \in StoreCalls : StoreTrusted(c)
    \/ \E c \in StoreCalls : StoreIssued(c)
    \/ \E c \in StoreCalls : StoreRevoked(c)
    \/ \E c \in RespondCalls : RespondStart(c)
    \/ \E c \in RespondCalls : RespondTrusted(c)
    \/ \E c \in RespondCalls : RespondIssued(c)
    \/ \E c \in RespondCalls : RespondRevoked(c)
    \/ \E c \in RespondCalls : RespondCommit(c)

Spec == Init /\ [][Next]_vars

\* The three services together: the issuer service writes the registry,
\* the wallet stores what it issued and answers requests, the verifier
\* checks the presentations the wallet attached.
PipelineNext ==
    \/ InitializeIssuer
    \/ RequestProof
    \/ Sent
    \/ \E c \in IssuerCalls : IssueStart(c)
    \/ \E c \in IssuerCalls : IssueMined(c)
    \/ \E c \in IssuerCalls : IssueReturn(c)
    \/ \E c \in IssuerCalls : RevokeStart(c)
    \/ \E c \in IssuerCalls : RevokeMined(c)
    \/ \E c \in IssuerCalls : RevokeReturn(c)
    \/ \E c \in StoreCalls : StoreStart(c)
    \/ \E c \in StoreCalls : StoreTrusted(c)
    \/ \E c \in StoreCalls : StoreIssued(c)
    \/ \E c \in StoreCalls : StoreRevoked(c)
    \/ \E c \in PipelineRespondCalls : RespondStart(c)
    \/ \E c \in PipelineRespondCalls : RespondTrusted(c)
    \/ \E c \in PipelineRespondCalls : RespondIssued(c)
    \/ \E c \in PipelineRespondCalls : RespondRevoked(c)
    \/ \E c \in PipelineRespondCalls : RespondCommit(c)
    \/ \E c \in VerifyCalls : VerifyStart(c)
    \/ \E c \in VerifyCalls : VerifyTrusted(c)
    \/ \E c \in VerifyCalls : VerifyIssued(c)
    \/ \E c \in VerifyCalls : VerifyRevoked(c)

Pipeline == Init /\ [][PipelineNext]_vars

\* The registry under transactions of any account, and the issuer service
\* started against it step by step.
ChainNext ==
    \/ Transaction
    \/ StartCheck
    \/ StartRegister
    \/ StartConfirm
    \/ StartListen
    \/ Sent
    \/ \E c \in IssuerCalls : IssueStart(c)
    \/ \E c \in IssuerCalls : IssueMined(c)
    \/ \E c \in IssuerCalls : IssueReturn(c)
    \/ \E c \in IssuerCalls : RevokeStart(c)
    \/ \E c \in IssuerCalls : RevokeMined(c)
    \/ \E c \in IssuerCalls : RevokeReturn(c)

Chain == Init /\ [][ChainNext]_vars

\* The wallet at work on several requests: the registry trusts the issuer
\* and records the credential of John Doe, which the wallet has stored.
DeskInit ==
    /\ trustedIssuers = {IssuerAccount}
    /\ issuedCredentials = RegistryKeys
    /\ revokedCredentials = {}
    /\ credentials = Put(<<>>, Issued(ClaimsJohn, IssuerAccount).credentialHash,
                         StoredEntry(Issued(ClaimsJohn, IssuerAccount), 0))
    /\ requests = <<>>
    /\ uuids = DeskPool
    /\ now = 0
    /\ storeCalls = [c \in StoreCalls |-> IdleStore]
    /\ respondCalls = [c \in RespondCalls |-> IdleRespond]
    /\ response = None
    /\ resolutions = [id \in DeskPool |-> 0]
    /\ signatures = [id \in DeskPool |-> 0]
    /\ issuerService = "starting"
    /\ issuerCalls = [c \in IssuerCalls |-> IdleIssuer]
    /\ verifyCalls = [c \in VerifyCalls |-> IdleVerify]
    /\ revokeAcked = {}
    /\ verdict = None

DeskNext ==
    \/ RequestProof
    \/ Sent
    \/ \E c \in RespondCalls : RespondStart(c)
    \/ \E c \in RespondCalls : RespondTrusted(c)
    \/ \E c \in RespondCalls : RespondIssued(c)
    \/ \E c \in RespondCalls : RespondRevoked(c)
    \/ \E c \in RespondCalls : RespondCommit(c)

Desk == DeskInit /\ [][DeskNext]_vars

\* The desk with the event loop running every callback that is ready: a
\* response is written, and the registry answers the queries of the last
\* /respond handler, while those of the other handlers may hang for ever.
Answering == MaxRespondCalls
DeskFair ==
    /\ Desk
    /\ WF_vars(Sent)
    /\ SF_vars(RespondTrusted(Answering))
    /\ SF_vars(RespondIssued(Answering))
    /\ SF_vars(RespondRevoked(Answering))
    /\ SF_vars(RespondCommit(Answering))

\* The wallet deriving attributes: it holds one credential, of some date
\* of birth and pan, that the registry records, at some instant of the clock.
DerivationInit ==
    /\ trustedIssuers = {IssuerAccount}
    /\ credentials \in
         {Put(<<>>, Issued(c, IssuerAccount).credentialHash,
              StoredEntry(Issued(c, IssuerAccount), 0)) : c \in DerivableClaims}
    /\ issuedCredentials = {zeroPadValue(credentials[1][1])}
    /\ revokedCredentials = {}
    /\ requests = <<>>
    /\ uuids = UuidPool
    /\ now \in 0..MaxClock
    /\ storeCalls = [c \in StoreCalls |-> IdleStore]
    /\ respondCalls = [c \in RespondCalls |-> IdleRespond]
    /\ response = None
    /\ resolutions = [id \in UuidPool |-> 0]
    /\ signatures = [id \in UuidPool |-> 0]
    /\ issuerService = "starting"
    /\ issuerCalls = [c \in IssuerCalls |-> IdleIssuer]
    /\ verifyCalls = [c \in VerifyCalls |-> IdleVerify]
    /\ revokeAcked = {}
    /\ verdict = None

DerivationNext ==
    \/ RequestProof
    \/ Sent
    \/ \E c \in PipelineRespondCalls : RespondStart(c)
    \/ \E c \in PipelineRespondCalls : RespondTrusted(c)
    \/ \E c \in PipelineRespondCalls : RespondIssued(c)
    \/ \E c \in PipelineRespondCalls : RespondRevoked(c)
    \/ \E c \in PipelineRespondCalls : RespondCommit(c)

Derivation == DerivationInit /\ [][DerivationNext]_vars

\* The wallet selecting among the credentials it holds: a store of up to
\* two credentials that /store-credential accepts (signed by their issuer,
\* the issuer trusted, the hash recorded), in either order.
SelectableCredentials ==
    {vc \in {Issued(ClaimsJohn, 1), Issued(ClaimsJane, 2), Issued(ClaimsEve, 1)} :
        StoreLocalChecks(vc) = None}
WalletStores ==
    {<<>>}
    \cup {Put(<<>>, a.credentialHash, StoredEntry(a, 0)) :
             a \in SelectableCredentials}
    \cup {Put(Put(<<>>, a.credentialHash, StoredEntry(a, 0)),
              b.credentialHash, StoredEntry(b, 0)) :
             a \in SelectableCredentials, b \in SelectableCredentials}

SelectionInit ==
    /\ trustedIssuers = Accounts
    /\ issuedCredentials =
         {zeroPadValue(vc.credentialHash) : vc \in SelectableCredentials}
    /\ revokedCredentials = {}
    /\ credentials \in WalletStores
    /\ requests = <<>>
    /\ uuids = UuidPool
    /\ now = 0
    /\ storeCalls = [c \in StoreCalls |-> IdleStore]
    /\ respondCalls = [c \in RespondCalls |-> IdleRespond]
    /\ response = None
    /\ resolutions = [id \in UuidPool |-> 0]
    /\ signatures = [id \in UuidPool |-> 0]
    /\ issuerService = "starting"
    /\ issuerCalls = [c \in IssuerCalls |-> IdleIssuer]
    /\ verifyCalls = [c \in VerifyCalls |-> IdleVerify]
    /\ revokeAcked = {}
    /\ verdict = None

Selection == SelectionInit /\ [][DerivationNext]_vars

\* The wallet accepting credentials while any account sends transactions
\* to the registry.
LedgerNext ==
    \/ Transaction
    \/ Sent
    \/ \E c \in StoreCalls : StoreStart(c)
    \/ \E c \in StoreCalls : StoreTrusted(c)
    \/ \E c \in StoreCalls : StoreIssued(c)
    \/ \E c \in StoreCalls : StoreRevoked(c)

Ledger == Init /\ [][LedgerNext]_vars

\* ----------------------------------------------------------- properties
HasVp(reqObj) == "vp" \in DOMAIN reqObj
StatusOf(id) == Get(requests, id).status

\* r is a response of /respond; it carries the given body.
IsRespond(r) == r # None /\ r[1].handler = "respond"
Answered(r, body) == IsRespond(r) /\ r[1].body = body
IsStore(r) == r # None /\ r[1].handler = "store-credential"

\* The request id a /respond response is about, when its body named one.
AboutRequest(r, id) == IsRespond(r) /\ r[1].req[1] = Some(id)

\* This step answers a /respond call in the segment it arrived in.
AnsweredOnArrival ==
    response = None /\ IsRespond(response') /\ respondCalls' = respondCalls

\* This step is a segment of the suspended /respond call c.
StepOf(c) == respondCalls[c].pc # "idle" /\ respondCalls'[c] # respondCalls[c]

\* C1: of the respond calls that run on one pending request, at most one
\* succeeds in moving it out of pending (per request, the number of calls
\* that wrote its status and answered ok never exceeds one).
C1_AtMostOneSucceeds == \A id \in UuidPool : resolutions[id] <= 1

\* C2: approved and rejected are terminal: a request whose status is
\* approved or rejected keeps that status in every later state.
C2_TerminalStatus ==
    [][\A i \in 1..Len(requests) :
          requests[i][2].status \in {"approved", "rejected"}
            => requests'[i][2].status = requests[i][2].status]_vars

\* C3: the holder signs at most one presentation per request, and a
\* presentation attached to a request record never changes afterwards.
C3_SignedOnceNeverChanged ==
    /\ [](\A id \in UuidPool : signatures[id] <= 1)
    /\ [][\A i \in 1..Len(requests) :
            HasVp(requests[i][2])
              => /\ HasVp(requests'[i][2])
                 /\ requests'[i][2].vp = requests[i][2].vp]_vars

\* C4: a respond call that arrives for a request already resolved (the
\* second of two sequential calls) is answered AlreadyResolved whatever its
\* approve value, and leaves the request store (status, presentation) as
\* it was.
C4_SecondCallAlreadyResolved ==
    [][\A id \in UuidPool :
          (/\ AnsweredOnArrival
           /\ AboutRequest(response', id)
           /\ response'[1].req[2] \in {"true", "false"}
           /\ Has(requests, id)
           /\ StatusOf(id) # "pending")
            => /\ response'[1].body = AlreadyResolved
               /\ requests' = requests]_vars

C4_Witness ==
    /\ Answered(response, AlreadyResolved)
    /\ response[1].req[2] = "false"
    /\ \E i \in 1..Len(requests) :
          /\ AboutRequest(response, requests[i][1])
          /\ requests[i][2].status = "approved"
          /\ HasVp(requests[i][2])

\* The /respond call c is answered err in this step without having signed
\* or written anything.
Aborts(c, err) ==
    /\ Answered(response', err)
    /\ response'[1].req = BodyOf(c)
    /\ ~response'[1].signed
    /\ UNCHANGED <<requests, credentials, signatures>>

\* C5: when the pre-sign re-check of respond(approve=true) finds the issuer
\* untrusted, the hash not issued or the hash revoked, the call is answered
\* UntrustedIssuer, NotIssued or Revoked, nothing is signed or attached and
\* the request record stays as it was (pending when it was pending).
C5_RecheckAborts ==
    [][\A c \in RespondCalls :
          (StepOf(c) /\ ~Answered(response', RespondInternalError))
            => LET call == respondCalls[c]
                   account == getAddress(call.vc[1].issuerPublicKey)
                   key == zeroPadValue(call.vc[1].credentialHash)
               IN  /\ (call.pc = "awaitTrusted" /\ account \notin trustedIssuers)
                        => Aborts(c, UntrustedIssuer)
                   /\ (call.pc = "awaitIssued" /\ key \notin issuedCredentials)
                        => Aborts(c, NotIssued)
                   /\ (call.pc = "awaitRevoked" /\ key \in revokedCredentials)
                        => Aborts(c, Revoked)]_vars

\* A credential that passed accept is in the store, the registry has since
\* recorded it revoked, and the approval was answered Revoked with the
\* request still pending.
C5_Witness ==
    /\ Answered(response, Revoked)
    /\ \E i \in 1..Len(requests) :
          /\ AboutRequest(response, requests[i][1])
          /\ requests[i][2].status = "pending"
          /\ ~HasVp(requests[i][2])
    /\ \E j \in 1..Len(credentials) :
          zeroPadValue(credentials[j][1]) \in revokedCredentials

\* r answers a respond(requestId, approve=true) with an error.
ApproveFailed(r) ==
    /\ IsRespond(r)
    /\ r[1].req[1] # None
    /\ r[1].req[2] = "true"
    /\ r[1].body[1] # 200

\* C6: a respond(requestId, approve=true) that fails writes nothing: the
\* step that answers it leaves the request store and the credential store
\* unchanged, it has signed no presentation, and a request that no call has
\* resolved is still pending and without presentation afterwards.
C6_FailedApproveWritesNothing ==
    /\ [][ApproveFailed(response')
            => /\ UNCHANGED <<requests, credentials, signatures>>
               /\ ~response'[1].signed]_vars
    /\ [](\A i \in 1..Len(requests) :
            (/\ ApproveFailed(response)
             /\ AboutRequest(response, requests[i][1])
             /\ resolutions[requests[i][1]] = 0)
              => /\ requests[i][2].status = "pending"
                 /\ ~HasVp(requests[i][2]))

\* A registry query threw during an approval over a stored credential; the
\* request is pending.
C6_Witness ==
    /\ Answered(response, RespondInternalError)
    /\ ApproveFailed(response)
    /\ credentials # <<>>
    /\ \E i \in 1..Len(requests) :
          /\ AboutRequest(response, requests[i][1])
          /\ requests[i][2].status = "pending"

\* The five conditions of acceptance that can be read off a stored entry e
\* and the registry.
StoredValid(e) ==
    /\ e.credentialHash = sha256hex(JSONstringify(e.vc))
    /\ IsWellFormed(e.issuerSignature)
    /\ toLowerCase(verifyMessage(e.credentialHash, e.issuerSignature))
         = toLowerCase(e.issuerPublicKey)
    /\ getAddress(e.issuerPublicKey) \in trustedIssuers
    /\ zeroPadValue(e.credentialHash) \in issuedCredentials

\* C7: every stored credential has the hash of its claims, a signature over
\* that hash recovering to its issuer, a trusted issuer and an issued hash;
\* the store changes only in the step where accept reads the hash as not
\* revoked and answers ok; a failed accept leaves the store unchanged.
C7_StoredCredentialsValid ==
    /\ [](\A i \in 1..Len(credentials) : StoredValid(credentials[i][2]))
    /\ [][credentials' # credentials
            => \E c \in StoreCalls :
                 /\ storeCalls[c].pc = "awaitRevoked"
                 /\ storeCalls'[c].pc = "idle"
                 /\ zeroPadValue(storeCalls[c].vc[1].credentialHash)
                      \notin revokedCredentials
                 /\ IsStore(response') /\ response'[1].body = Ok
                 /\ Has(credentials', storeCalls[c].vc[1].credentialHash)]_vars
    /\ [][(IsStore(response') /\ response'[1].body # Ok)
            => credentials' = credentials]_vars

\* A credential is in the store, stored from an issuer address given in
\* lower case.
C7_Witness ==
    \E i \in 1..Len(credentials) :
        /\ credentials[i][2].issuerPublicKey[2] = "lower"
        /\ credentials[i][2].vc = ClaimsJohn

\* C8: a request record carries a presentation only if its status is
\* approved.
C8_PresentationOnlyWhenApproved ==
    \A i \in 1..Len(requests) :
        HasVp(requests[i][2]) => requests[i][2].status = "approved"

\* A request carries a presentation, written over an earlier rejection.
C8_Witness ==
    \E i \in 1..Len(requests) :
        HasVp(requests[i][2]) /\ resolutions[requests[i][1]] = 2

\* C9: respond(requestId, approve=false) on a pending request turns it to
\* rejected and answers ok, having made no registry query and signed
\* nothing, whatever the credential store and the registry hold.
C9_RejectUnconditional ==
    [][\A id \in UuidPool :
          (/\ response = None
           /\ IsRespond(response')
           /\ response'[1].req = <<Some(id), "false">>
           /\ Has(requests, id)
           /\ StatusOf(id) = "pending")
            => /\ Get(requests', id).status = "rejected"
               /\ ~HasVp(Get(requests', id))
               /\ response'[1].body = <<200, "Request rejected">>
               /\ response'[1].queries = 0
               /\ ~response'[1].signed
               /\ UNCHANGED <<trustedIssuers, issuedCredentials,
                              revokedCredentials, credentials, signatures,
                              respondCalls>>]_vars

\* A request was rejected while the store held a credential the registry
\* reports revoked.
C9_Witness ==
    /\ Answered(response, <<200, "Request rejected">>)
    /\ \E i \in 1..Len(requests) :
          /\ AboutRequest(response, requests[i][1])
          /\ requests[i][2].status = "rejected"
    /\ \E j \in 1..Len(credentials) :
          zeroPadValue(credentials[j][1]) \in revokedCredentials

Requested(reqObj) ==
    {reqObj.attributes[j] : j \in 1..Len(reqObj.attributes)}

\* C11: the disclosed mapping of a presentation produced by respond has
\* exactly the attribute names the request lists: every requested name and
\* no claim of the credential that was not requested.
C11_DisclosedExactlyRequested ==
    \A i \in 1..Len(requests) :
        HasVp(requests[i][2])
          => Keys(Get(requests[i][2].vp, "vp")) = Requested(requests[i][2])

\* C12: the presentation attached to an approved request carries the id
\* and the verifierId of that request.
C12_PresentationBoundToRequest ==
    \A i \in 1..Len(requests) :
        LET reqObj == requests[i][2]
        IN  (reqObj.status = "approved" /\ HasVp(reqObj))
              => /\ Get(reqObj.vp, "requestId") = reqObj.id
                 /\ Get(reqObj.vp, "requestId") = requests[i][1]
                 /\ Get(reqObj.vp, "verifierId") = reqObj.verifierId

\* An approved request with an issuer filter carries its presentation.
C12_Witness ==
    \E i \in 1..Len(requests) :
        /\ requests[i][2].status = "approved"
        /\ HasVp(requests[i][2])
        /\ requests[i][2].issuerPublicKey # None
        /\ Get(requests[i][2].vp, "verifierId") \in VerifierIds

\* The issuer attestation of a stored credential and of a payload.
TripleOf(cred) ==
    <<cred.credentialHash, cred.issuerPublicKey, cred.issuerSignature>>
TripleIn(payload) ==
    <<Get(payload, "credentialHash"), Get(payload, "issuerPublicKey"),
      Get(payload, "issuerSignature")>>

\* This step of the /respond call c builds and signs its payload.
Builds(c) ==
    respondCalls[c].pc = "awaitRevoked" /\ respondCalls'[c].pc = "awaitSign"

\* C13 as stated: (contentHash, issuerId, issuerSignature) of a presentation
\* is the triple of a credential that is in the credential store at the
\* time the presentation is constructed.
C13_TripleInStoreAtConstruction ==
    [][\A c \in RespondCalls :
          Builds(c)
            => \E j \in 1..Len(credentials) :
                 TripleOf(credentials[j][2])
                   = TripleIn(respondCalls'[c].vpPayload[1])]_vars

\* C13 amended: the triple of a presentation is that of the credential the
\* call selected, which was in the credential store when the call selected
\* it; the issuer signature in it is the issuer's own over the hash.
C13_TripleOfSelectedCredential ==
    /\ [][\A c \in RespondCalls :
            (respondCalls[c].pc = "idle" /\ respondCalls'[c].pc = "awaitTrusted")
              => \E j \in 1..Len(credentials) :
                   credentials[j][2] = respondCalls'[c].vc[1]]_vars
    /\ [][\A c \in RespondCalls :
            Builds(c)
              => /\ TripleIn(respondCalls'[c].vpPayload[1])
                      = TripleOf(respondCalls[c].vc[1])
                 /\ respondCalls'[c].vc = respondCalls[c].vc]_vars
    /\ [](\A i \in 1..Len(requests) :
            HasVp(requests[i][2])
              => LET vp == requests[i][2].vp
                 IN  toLowerCase(verifyMessage(Get(vp, "credentialHash"),
                                               Get(vp, "issuerSignature")))
                       = toLowerCase(Get(vp, "issuerPublicKey")))

\* A call has signed a payload carrying the issuer address as the selected
\* credential had it, while the store now holds that credential under the
\* other spelling of the address.
C13_Witness ==
    \E c \in RespondCalls :
        /\ respondCalls[c].pc = "awaitSign"
        /\ \E j \in 1..Len(credentials) :
              /\ credentials[j][2].credentialHash
                   = Get(respondCalls[c].vpPayload[1], "credentialHash")
              /\ credentials[j][2].issuerPublicKey
                   # Get(respondCalls[c].vpPayload[1], "issuerPublicKey")

\* r is a response of /verify-vp; it answers a call made with vp.
IsVerify(r) == r # None /\ r[1].handler = "verify-vp"
VerifiedWith(r, vp) == IsVerify(r) /\ r[1].req = Some(vp)

\* The registry reports the issuer of vp trusted, its hash issued and not
\* revoked.
RegistryAccepts(vp) ==
    /\ getAddress(Get(vp, "issuerPublicKey")) \in trustedIssuers
    /\ zeroPadValue(Get(vp, "credentialHash")) \in issuedCredentials
    /\ zeroPadValue(Get(vp, "credentialHash")) \notin revokedCredentials

\* C14: the payload the verifier rebuilds from a presentation attached to
\* an approved request is, property for property and in the same order, the
\* payload the wallet signed; and a verify of it that is answered (by other
\* than a failed registry call) while the registry reports trusted, issued
\* and not revoked is a success reporting the relay address, the issuer
\* address and (true, true, false).
C14_AttachedPresentationVerifies ==
    /\ [](\A vp \in Presentations :
            /\ JSONstringify(VerifierPayload(vp))
                 = Get(vp, "backendSignature")[3]
            /\ VerifierPayload(vp) = SubSeq(vp, 1, Len(vp) - 1))
    /\ [][\A vp \in Presentations :
            (/\ VerifiedWith(response', vp)
             /\ response'[1].body # VerifyInternalError
             /\ RegistryAccepts(vp))
              => LET body == response'[1].body
                 IN  /\ body[1] = 200
                     /\ toLowerCase(body[3].backendAddress)
                          = toLowerCase(Get(Get(vp, "backend"), "address"))
                     /\ toLowerCase(body[3].issuerAddress)
                          = toLowerCase(Get(vp, "issuerPublicKey"))
                     /\ body[3].onChain
                          = [isTrusted |-> TRUE, issued |-> TRUE,
                             revoked |-> FALSE]
                     /\ body[3].derived = Some(Get(vp, "vp"))
                     /\ response'[1].queries = 3]_vars

\* The verifier has answered success for the presentation disclosing
\* over18 = true and panLast4 = "234F" of the issued credential.
C14_Witness ==
    /\ IsVerify(response)
    /\ response[1].body[1] = 200
    /\ response[1].req[1] \in Presentations
    /\ response[1].body[3].derived
         = Some(<< <<"over18", TRUE>>, <<"panLast4", <<"2", "3", "4", "F">>>> >>)

\* C15: a verify of an attached presentation with one field of the signed
\* payload changed and the backend signature kept is answered "Backend
\* signature does not match backend.address", before any registry query,
\* and never success.
C15_TamperedPayloadRejected ==
    [][\A vp \in Presentations : \A t \in Tamperings(vp) :
          VerifiedWith(response', t)
            => /\ response'[1].body = BackendSignatureMismatch
               /\ response'[1].queries = 0]_vars

\* The verifier has refused the presentation of the issued credential with
\* the last character of the disclosed panLast4 changed.
C15_Witness ==
    /\ IsVerify(response)
    /\ response[1].body = BackendSignatureMismatch
    /\ \E vp \in Presentations :
          /\ Has(Get(vp, "vp"), "panLast4")
          /\ response[1].req = Some(Put(vp, "vp", TamperDisclosed(Get(vp, "vp"))))
          /\ Get(response[1].req[1], "backendSignature")
               = Get(vp, "backendSignature")
          /\ Get(Get(response[1].req[1], "vp"), "panLast4")
               = <<"2", "3", "4", "0">>

\* This step answers the /verify-vp call c, which had reached the registry.
VerifyAnswers(c) ==
    verifyCalls[c].pc # "idle" /\ verifyCalls'[c].pc = "idle"

\* This step answers the /respond call c, which had selected a credential.
RespondAnswers(c) ==
    respondCalls[c].pc # "idle" /\ respondCalls'[c].pc = "idle"

C17_VerifyPureAndRepeatable ==
    /\ [][(verifyCalls' # verifyCalls \/ (response = None /\ IsVerify(response')))
            => /\ UNCHANGED <<trustedIssuers, issuedCredentials,
                              revokedCredentials, credentials, requests,
                              issuerService, issuerCalls, revokeAcked,
                              storeCalls, respondCalls>>
               /\ \A c \in VerifyCalls :
                    /\ verifyCalls[c].pc # "idle" /\ verifyCalls'[c].pc # "idle"
                         => verifyCalls'[c].vp = verifyCalls[c].vp
                    /\ VerifyAnswers(c) => response'[1].req = verifyCalls[c].vp]_vars
    /\ [][\A c \in VerifyCalls :
            (/\ VerifyAnswers(c)
             /\ response'[1].body # VerifyInternalError
             /\ verifyCalls[c].began = Some(Registry)
             /\ verdict # None
             /\ verdict[1].vp = verifyCalls[c].vp[1]
             /\ verdict[1].registry = Registry)
              => response'[1].body = verdict[1].body]_vars

\* The same presentation has been verified twice under one registry:
\* the second answer, a success, is being sent and equals the first.
C17_Witness ==
    /\ IsVerify(response)
    /\ response[1].body[1] = 200
    /\ verdict # None
    /\ verdict[1].repeated
    /\ verdict[1].body = response[1].body
    /\ verdict[1].vp = response[1].req[1]
    /\ verdict[1].registry = Registry

\* vp with one of the properties the structural check is to require left
\* out: a required field, or the address of backend.
Unstructured(vp) ==
    {Without(vp, k) : k \in RequiredFields}
    \cup {Put(vp, "backend", Without(Get(vp, "backend"), "address"))}

\* C18: a verify of a presentation lacking contentHash, issuerId,
\* issuerSignature, the relay fields, the relay address or the relay
\* signature is answered "Malformed VP: missing fields" before any signature
\* recovery and any registry query.
C18_MalformedBeforeAnyCheck ==
    [][\A vp \in Presentations : \A t \in Unstructured(vp) :
          VerifiedWith(response', t)
            => /\ response'[1].body = MalformedVP
               /\ response'[1].recoveries = 0
               /\ response'[1].queries = 0]_vars

\* r is a response of /issue.
IsIssue(r) == r # None /\ r[1].handler = "issue"

\* C19: when /issue returns a credential, the registry records its padded
\* hash as issued, and a recorded hash stays recorded; a call whose
\* addCredential fails answers an error, and an error carries no credential.
C19_IssuedBeforeReturn ==
    /\ [](IsIssue(response) /\ response[1].body[1] = 200
            => LET VC == response[1].body[3]
               IN  /\ VC = response[1].req[1]
                   /\ VC.credentialHash = sha256hex(JSONstringify(VC.vc))
                   /\ isCredentialIssued(zeroPadValue(VC.credentialHash)))
    /\ [](IsIssue(response) /\ response[1].body[1] # 200
            => response[1].body \in {IssueMissingFields, IssueError})
    /\ [][issuedCredentials \subseteq issuedCredentials']_vars
    /\ [][\A c \in IssuerCalls :
            (/\ issuerCalls[c].pc = "issueSending"
             /\ issuerCalls'[c].pc = "idle")
              => /\ response'[1].body = IssueError
                 /\ issuedCredentials' = issuedCredentials]_vars

\* /issue is returning the credential of John Doe, its hash recorded.
C19_Witness ==
    /\ IsIssue(response)
    /\ response[1].body[1] = 200
    /\ response[1].body[3].vc = ClaimsJohn
    /\ zeroPadValue(response[1].body[3].credentialHash) \in issuedCredentials

\* C20: a hash the registry reports revoked is reported revoked in every
\* later state, whatever transactions any caller sends.
C20_RevocationMonotonic ==
    [][\A k \in RegistryKeys :
          isCredentialRevoked(k) => k \in revokedCredentials']_vars

\* A stored credential was revoked, and /store-credential has since been
\* refused for it as revoked.
C20_Witness ==
    /\ IsStore(response)
    /\ response[1].body = RevokedOnStore
    /\ credentials # <<>>
    /\ \E j \in 1..Len(credentials) :
          zeroPadValue(credentials[j][1]) \in revokedCredentials

\* r is the receipt of a registry transaction; its sender, function and
\* argument.
IsReceipt(r) == r # None /\ r[1].handler = "registry"
SenderOf(r) == r[1].req[1][1]
FunctionOf(r) == r[1].req[1][2]
ArgumentOf(r) == r[1].req[1][3]

\* C21: a registerIssuer, addCredential or revokeCredential transaction
\* sent by an account other than the owner reverts and leaves the three
\* mappings unchanged; sent by the owner it is mined and sets its entry.
C21_OnlyOwnerWrites ==
    [][IsReceipt(response')
         => IF SenderOf(response') # owner
              THEN /\ response'[1].body = Reverted
                   /\ UNCHANGED <<trustedIssuers, issuedCredentials,
                                  revokedCredentials>>
              ELSE /\ response'[1].body = Mined
                   /\ FunctionOf(response') = "registerIssuer"
                        => ArgumentOf(response') \in trustedIssuers'
                   /\ FunctionOf(response') = "addCredential"
                        => ArgumentOf(response') \in issuedCredentials'
                   /\ FunctionOf(response') = "revokeCredential"
                        => ArgumentOf(response') \in revokedCredentials']_vars

\* An account other than the owner has tried to revoke a credential that
\* is issued, and it is still not revoked.
C21_Witness ==
    /\ IsReceipt(response)
    /\ SenderOf(response) # owner
    /\ FunctionOf(response) = "revokeCredential"
    /\ ArgumentOf(response) \in issuedCredentials
    /\ ArgumentOf(response) \notin revokedCredentials

\* This step is a step of start().
StartSteps == issuerService' # issuerService
\* The issuer service is serving /issue or /revoke.
Serving ==
    \/ \E c \in IssuerCalls : issuerCalls[c].pc # "idle"
    \/ response # None /\ response[1].handler \in {"issue", "revoke"}

\* C22: start() sends registerIssuer only after isIssuerTrusted answered
\* false and only once; no other step of start() writes the registry, so a
\* start that finds the issuer trusted writes nothing; /issue and /revoke
\* are served only once the service listens, which it does only with the
\* issuer registered.
C22_RegisterOnceBeforeServing ==
    /\ [][(StartSteps /\ issuerService' = "registering")
            => /\ issuerService = "starting"
               /\ ~isIssuerTrusted(getAddress(issuerAddress))]_vars
    /\ [][issuerService # "starting" => issuerService' # "starting"]_vars
    /\ [][(StartSteps /\ issuerService # "registering")
            => UNCHANGED <<trustedIssuers, issuedCredentials,
                           revokedCredentials>>]_vars
    /\ [][(StartSteps /\ issuerService = "starting"
                      /\ issuerService' = "initialized")
            => isIssuerTrusted(getAddress(issuerAddress))]_vars
    /\ [](Serving => issuerService = "listening")
    /\ [](issuerService \in {"initialized", "listening"}
            => isIssuerTrusted(getAddress(issuerAddress)))

\* start() has ended with the issuer registered, and the service is
\* serving /issue.
C22_Witness ==
    /\ issuerService = "listening"
    /\ isIssuerTrusted(getAddress(issuerAddress))
    /\ \E c \in IssuerCalls : issuerCalls[c].pc = "issueSending"

\* The /respond call a is suspended on a registry query for request id.
BlockedOn(a, id) ==
    /\ respondCalls[a].pc \in {"awaitTrusted", "awaitIssued", "awaitRevoked"}
    /\ respondCalls[a].requestId = Some(id)

\* The call b starts on request id and reaches its first registry query.
StartsOn(b, id) ==
    /\ RespondStart(b)
    /\ respondCalls'[b].pc = "awaitTrusted"
    /\ respondCalls'[b].requestId = Some(id)

\* The call b is at work on request id.
WorksOn(b, id) ==
    respondCalls[b].pc # "idle" /\ respondCalls[b].requestId = Some(id)

\* C23: while a /respond call is suspended on a registry query for request
\* A, a call on another pending request B can start; a call at work on B
\* comes to its end although the first call's query never answers; and its
\* commit approves B, attaches the presentation and leaves the suspended
\* call and request A as they are.
C23_OtherRequestNotBlocked ==
    /\ [](\A a \in RespondCalls : \A b \in RespondCalls \ {a} :
          \A A \in Keys(requests) : \A B \in Keys(requests) \ {A} :
            (/\ BlockedOn(a, A)
             /\ response = None
             /\ respondCalls[b].pc = "idle"
             /\ StatusOf(B) = "pending")
              => ENABLED StartsOn(b, B))
    /\ \A a \in RespondCalls \ {Answering} :
         (\E A \in Keys(requests) : \E B \in Keys(requests) \ {A} :
              BlockedOn(a, A) /\ WorksOn(Answering, B))
           ~> (respondCalls[Answering].pc = "idle")
    /\ [][\A a \in RespondCalls : \A b \in RespondCalls \ {a} :
          \A A \in Keys(requests) : \A B \in Keys(requests) \ {A} :
            (/\ BlockedOn(a, A)
             /\ respondCalls[b].pc = "awaitSign"
             /\ WorksOn(b, B)
             /\ respondCalls'[b].pc = "idle")
              => /\ Get(requests', B).status = "approved"
                 /\ HasVp(Get(requests', B))
                 /\ Answered(response', <<200, "ok", Get(requests', B).vp>>)
                 /\ respondCalls'[a] = respondCalls[a]
                 /\ Get(requests', A) = Get(requests, A)]_vars

\* A call on one request is suspended on its first registry query, the
\* request still pending, while a call on another request has just
\* committed its approval.
C23_Witness ==
    \E a \in RespondCalls : \E A \in Keys(requests) :
        /\ BlockedOn(a, A)
        /\ respondCalls[a].pc = "awaitTrusted"
        /\ StatusOf(A) = "pending"
        /\ IsRespond(response)
        /\ response[1].body[1] = 200
        /\ response[1].signed
        /\ response[1].req[1] # Some(A)
        /\ StatusOf(response[1].req[1][1]) = "approved"

\* r is a response of /request-proof.
IsRequestProof(r) == r # None /\ r[1].handler = "request-proof"

\* C24: /request-proof answering ok has stored, under an id no stored
\* request had, a record with status pending, no presentation, and the
\* attributes and issuer filter as they were given; the other records are
\* as they were; and every list of attribute names is accepted.
C24_FreshPendingRequest ==
    /\ [][(IsRequestProof(response') /\ response'[1].body[1] = 200)
            => LET id == response'[1].body[3]
                   body == response'[1].req[1]
               IN  /\ id \notin Keys(requests)
                   /\ Keys(requests') = Keys(requests) \cup {id}
                   /\ Get(requests', id).id = id
                   /\ Get(requests', id).status = "pending"
                   /\ ~HasVp(Get(requests', id))
                   /\ Get(requests', id).attributes = body[1]
                   /\ Get(requests', id).issuerPublicKey = body[2]
                   /\ \A k \in Keys(requests) :
                        Get(requests', k) = Get(requests, k)]_vars
    /\ []((response = None /\ uuids # {})
            => \A body \in RequestInputs :
                 ENABLED (/\ RequestProof
                          /\ response'[1].req = Some(body)
                          /\ response'[1].body[1] = 200))

\* A second request has been created beside one that is already approved:
\* it asks for a name no derivation rule knows and it is pending.
C24_Witness ==
    /\ IsRequestProof(response)
    /\ response[1].body[1] = 200
    /\ Len(requests) = 2
    /\ Get(requests, response[1].body[3]).attributes = <<"__proto__">>
    /\ Get(requests, response[1].body[3]).status = "pending"
    /\ \E k \in Keys(requests) : Get(requests, k).status = "approved"

\* The credential of a stored entry: the entry without its storedAt.
ContentOf(e) ==
    [vc |-> e.vc, credentialHash |-> e.credentialHash,
     issuerPublicKey |-> e.issuerPublicKey,
     issuerSignature |-> e.issuerSignature]
\* The store as a mapping from hash to credential, in the order of its keys.
Contents(store) ==
    [i \in 1..Len(store) |-> <<store[i][1], ContentOf(store[i][2])>>]

\* C25: when /store-credential comes to its last step for a credential
\* the store already holds, identical, under its hash, the call answers ok
\* unless the registry now reports the hash revoked or fails, and the store
\* holds the same keys in the same order with the same credentials: no
\* entry is added and none is changed but for the instant storedAt of the
\* entry accepted again.
C25_ReacceptIdempotent ==
    [][\A c \in StoreCalls :
         LET vc == storeCalls[c].vc[1]
         IN  (/\ storeCalls[c].pc = "awaitRevoked"
              /\ storeCalls'[c].pc = "idle"
              /\ Has(credentials, vc.credentialHash)
              /\ ContentOf(Get(credentials, vc.credentialHash)) = vc)
               => /\ Contents(credentials') = Contents(credentials)
                  /\ Len(credentials') = Len(credentials)
                  /\ \A i \in 1..Len(credentials) :
                       credentials[i][1] # vc.credentialHash
                         => credentials'[i] = credentials[i]
                  /\ response'[1].body
                       \in {Ok, RevokedOnStore, StoreInternalError}
                  /\ (response'[1].body = RevokedOnStore)
                       => isCredentialRevoked(zeroPadValue(vc.credentialHash))
                  /\ response'[1].body # Ok
                       => credentials' = credentials]_vars

\* The credential behind a presentation approved at instant 0 has been
\* accepted again, identical, at instant 1.
C25_Witness ==
    /\ IsStore(response)
    /\ response[1].body = Ok
    /\ Has(credentials, response[1].req[1].credentialHash)
    /\ LET e == Get(credentials, response[1].req[1].credentialHash)
       IN  /\ ContentOf(e) = response[1].req[1]
           /\ e.storedAt = 1
           /\ \E i \in 1..Len(requests) :
                /\ HasVp(requests[i][2])
                /\ requests[i][2].resolvedAt = 0
                /\ Get(requests[i][2].vp, "credentialHash") = e.credentialHash
                /\ Get(requests[i][2].vp, "issuerPublicKey") = e.issuerPublicKey

\* The presentation the wallet builds and signs for the credential vc,
\* disclosing nothing.
AsPresented(vc) == SignedVP(VpPayload(<<>>, vc, UnknownId, "BankXYZ", 0))
\* The verifier's checks up to and including the issuer signature pass.
PassesVerifier(vc) == VerifyLocalChecks(AsPresented(vc)) = <<None, 2>>

\* C26: a credential that has passed the hash and signature checks of
\* /store-credential, and every credential in the store, passes the
\* verifier's issuer-signature check on its credentialHash, issuerPublicKey
\* and issuerSignature; and no verify of an attached presentation fails on
\* the issuer signature.
C26_AcceptedPassesIssuerCheck ==
    /\ \A c \in StoreCalls :
         storeCalls[c].pc # "idle" => PassesVerifier(storeCalls[c].vc[1])
    /\ \A i \in 1..Len(credentials) :
         PassesVerifier(ContentOf(credentials[i][2]))
    /\ (IsVerify(response) /\ response[1].req # None
                           /\ response[1].req[1] \in Presentations)
         => response[1].body \notin {InvalidIssuerSignatureFormat,
                                     IssuerSignatureMismatch}

\* A credential accepted with its issuer address in lower case has been
\* presented, and the verifier has answered success.
C26_Witness ==
    /\ IsVerify(response)
    /\ response[1].body[1] = 200
    /\ Get(response[1].req[1], "issuerPublicKey")[2] = "lower"
    /\ \E i \in 1..Len(credentials) :
         /\ credentials[i][2].issuerPublicKey
              = Get(response[1].req[1], "issuerPublicKey")
         /\ credentials[i][2].issuerSignature
              = Get(response[1].req[1], "issuerSignature")

\* Two claims mappings with the same attribute names and values.
SameContent(a, b) ==
    Len(a) = Len(b) /\ {a[i] : i \in 1..Len(a)} = {b[i] : i \in 1..Len(b)}

\* C27: /store-credential given claims with the names and values of an
\* issuable credential, in whatever key order, and that credential's hash,
\* does not answer "Credential hash mismatch".
C27_HashOfLogicalContent ==
    [][(IsStore(response') /\ response'[1].req # None)
         => LET vc == response'[1].req[1]
            IN  (\E c \in IssuableClaims :
                    /\ SameContent(vc.vc, c)
                    /\ vc.credentialHash = sha256hex(JSONstringify(c)))
                  => response'[1].body # HashMismatch]_vars

\* The month and the day of the month of a day number.
MonthDayOfDay(z0) ==
    LET z == z0 + 719468
        era == z \div 146097
        doe == z - era * 146097
        yoe == (doe - doe \div 1460 + doe \div 36524 - doe \div 146096) \div 365
        doy == doe - (365 * yoe + yoe \div 4 - yoe \div 100)
        mp == (5 * doy + 2) \div 153
    IN  <<IF mp < 10 THEN mp + 3 ELSE mp - 9, doy - (153 * mp + 2) \div 5 + 1>>

\* The calendar age on day today of somebody born on dobStr: the difference
\* of the years, less one when the month and day of today come before those
\* of the birth.
CalendarAge(dobStr, today) ==
    LET y == Number(SubSeq(dobStr, 1, 4))
        m == Number(SubSeq(dobStr, 6, 7))
        d == Number(SubSeq(dobStr, 9, 10))
        md == MonthDayOfDay(today)
    IN  YearOfDay(today) - y
          - (IF md[1] < m \/ (md[1] = m /\ md[2] < d) THEN 1 ELSE 0)

\* The presentations attached to requests, each with the claims of the
\* stored credential it was derived from.
Disclosures ==
    {<<requests[i][2], Get(credentials, Get(requests[i][2].vp, "credentialHash")).vc>> :
        i \in {j \in 1..Len(requests) :
                 /\ HasVp(requests[j][2])
                 /\ Has(credentials, Get(requests[j][2].vp, "credentialHash"))}}
\* What a presentation discloses, and the instant it was built at.
DisclosedBy(reqObj) == Get(reqObj.vp, "vp")
BuiltAt(reqObj) == Get(Get(reqObj.vp, "backend"), "timestamp")[2]

\* The day number of a date of birth.
BornOn(dobStr) ==
    DaysFromCivil(Number(SubSeq(dobStr, 1, 4)), Number(SubSeq(dobStr, 6, 7)),
                  Number(SubSeq(dobStr, 9, 10)))

\* C28: the over18 a presentation discloses is true exactly when the
\* calendar age of the credential's date of birth, on the day the
\* presentation was built, is at least 18, for a date of birth not after
\* that day.
C28_Over18IsCalendarAge ==
    \A x \in Disclosures :
        (/\ Has(DisclosedBy(x[1]), "over18")
         /\ BornOn(Get(x[2], "dob")) <= Date_now(BuiltAt(x[1])))
          => (Get(DisclosedBy(x[1]), "over18")
                <=> CalendarAge(Get(x[2], "dob"), Date_now(BuiltAt(x[1]))) >= 18)

PassThrough(reqObj) == Requested(reqObj) \ {"over18", "panLast4"}

\* C30: in every presentation produced, each requested attribute other
\* than over18 and panLast4 is a claim of the credential and is disclosed
\* with the claim's value unchanged; no presentation is produced with such
\* an attribute missing.
C30_PassThroughDisclosedUnchanged ==
    \A x \in Disclosures :
        \A attr \in PassThrough(x[1]) :
            /\ Has(x[2], attr)
            /\ Has(DisclosedBy(x[1]), attr)
            /\ Get(DisclosedBy(x[1]), attr) = Get(x[2], attr)

\* An attribute is satisfiable by claims: a derived one when its source
\* claim is present, any other when the claim exists under that name.
Satisfiable(claims, attr) ==
    IF attr = "over18" THEN Has(claims, "dob")
    ELSE IF attr = "panLast4" THEN Has(claims, "pan")
    ELSE Has(claims, attr)
\* A stored credential qualifies for a request.
Qualifies(cred, reqObj) ==
    /\ reqObj.issuerPublicKey = None
         \/ cred.issuerPublicKey = reqObj.issuerPublicKey[1]
    /\ \A attr \in Requested(reqObj) : Satisfiable(cred.vc, attr)
\* The positions of the store whose credential qualifies.
Qualifying(reqObj) ==
    {i \in 1..Len(credentials) : Qualifies(credentials[i][2], reqObj)}
\* The calls of /respond past selection, each with its request.
Selected ==
    {<<c, Get(requests, respondCalls[c].requestId[1])>> :
        c \in {d \in RespondCalls : respondCalls[d].pc # "idle"}}

\* C31: a call of respond past selection holds the first credential of the
\* store, in insertion order, that passes the request's issuer filter and
\* can satisfy every requested attribute; when none qualifies the call
\* answers that nothing matches and the request is still pending.
C31_FirstQualifyingSelected ==
    /\ \A x \in Selected :
          /\ Qualifying(x[2]) # {}
          /\ respondCalls[x[1]].vc =
               Some(credentials[CHOOSE i \in Qualifying(x[2]) :
                                   \A j \in Qualifying(x[2]) : i <= j][2])
    /\ (IsRespond(response) /\ response[1].body = NoMatch)
          => LET reqObj == Get(requests, response[1].req[1][1])
             IN  Qualifying(reqObj) = {} /\ reqObj.status = "pending"

\* C32: a request that lists over18 (panLast4) is served only with a
\* credential whose claims contain dob (pan), at selection and in every
\* presentation produced.
C32_DerivedNeedsSourceClaim ==
    /\ \A x \in Selected :
          LET claims == respondCalls[x[1]].vc[1].vc
          IN  /\ "over18" \in Requested(x[2]) => Has(claims, "dob")
              /\ "panLast4" \in Requested(x[2]) => Has(claims, "pan")
    /\ \A x \in Disclosures :
          /\ Has(DisclosedBy(x[1]), "over18") => Has(x[2], "dob")
          /\ Has(DisclosedBy(x[1]), "panLast4") => Has(x[2], "pan")

\* The checks of acceptance, each on its own, on a body with all fields.
HashOk(vc) == sha256hex(JSONstringify(vc.vc)) = vc.credentialHash
SignedByIssuer(vc) ==
    /\ IsWellFormed(vc.issuerSignature)
    /\ toLowerCase(verifyMessage(vc.credentialHash, vc.issuerSignature))
         = toLowerCase(vc.issuerPublicKey)
TrustedNow(vc) == getAddress(vc.issuerPublicKey) \in trustedIssuers
IssuedNow(vc) == zeroPadValue(vc.credentialHash) \in issuedCredentials
RevokedNow(vc) == zeroPadValue(vc.credentialHash) \in revokedCredentials
\* The answers of /store-credential to a body with all fields, that no
\* failure of a registry call caused.
StoreAnswers ==
    IF response # None /\ response[1].handler = "store-credential"
         /\ response[1].req # None /\ response[1].body # StoreInternalError
      THEN {response[1]} ELSE {}

\* C33: acceptance answers with the error of the earliest failing check, in
\* the order hash, issuer signature, issuer trusted, hash issued, hash
\* revoked, having made no registry query past the failing one (none at all
\* when the hash or the signature fails), and stores only when all pass.
C33_AcceptStopsAtFirstFailure ==
    \A r \in StoreAnswers :
        LET vc == r.req[1]
            res == r.body
        IN  /\ ~HashOk(vc) => res = HashMismatch /\ r.queries = 0
            /\ (HashOk(vc) /\ ~SignedByIssuer(vc))
                 => /\ res \in {InvalidSignatureFormat, SignatureMismatch}
                    /\ r.queries = 0
            /\ (HashOk(vc) /\ SignedByIssuer(vc))
                 => \/ res = UntrustedIssuer /\ ~TrustedNow(vc) /\ r.queries = 1
                    \/ /\ res = NotIssuedOnStore /\ r.queries = 2
                       /\ TrustedNow(vc) /\ ~IssuedNow(vc)
                    \/ /\ res = RevokedOnStore /\ r.queries = 3
                       /\ TrustedNow(vc) /\ IssuedNow(vc) /\ RevokedNow(vc)
                    \/ /\ res = Ok /\ r.queries = 3
                       /\ TrustedNow(vc) /\ IssuedNow(vc) /\ ~RevokedNow(vc)
C33_Witness ==
    \E r \in StoreAnswers :
        /\ r.body = UntrustedIssuer
        /\ r.queries = 1
        /\ ~IssuedNow(r.req[1])

\* The checks of verification, each on its own.
Structured(vp) ==
    /\ \A k \in {"credentialHash", "issuerPublicKey", "issuerSignature",
                 "backend", "backendSignature"} : Has(vp, k)
    /\ Has(Get(vp, "backend"), "address")
RelaySigned(vp) ==
    /\ IsWellFormed(Get(vp, "backendSignature"))
    /\ toLowerCase(RecoveredBackend(vp))
         = toLowerCase(Get(Get(vp, "backend"), "address"))
IssuerSigned(vp) ==
    /\ IsWellFormed(Get(vp, "issuerSignature"))
    /\ toLowerCase(RecoveredIssuer(vp)) = toLowerCase(Get(vp, "issuerPublicKey"))
KeyOf(vp) == paddedHashBytes32(Get(vp, "credentialHash"))
\* The answers of /verify-vp to a body that carries a presentation, that no
\* failure of a registry call caused.
VerifyVerdicts ==
    IF IsVerify(response) /\ response[1].req # None
         /\ ~(response[1].body = VerifyInternalError /\ response[1].queries > 0)
      THEN {response[1]} ELSE {}

\* C34: verification answers with the error of the earliest failing check,
\* in the order structure, relay signature, issuer signature, issuer
\* trusted, hash issued, hash revoked, and makes no registry query for a
\* presentation that fails one of the first three.
C34_VerifyStopsAtFirstFailure ==
    \A r \in VerifyVerdicts :
        LET vp == r.req[1]
            res == r.body
            issuer == getAddress(Get(vp, "issuerPublicKey"))
        IN  /\ ~Structured(vp) => res = MalformedVP /\ r.queries = 0
            /\ (Structured(vp) /\ ~RelaySigned(vp))
                 => /\ res \in {InvalidBackendSignatureFormat,
                                BackendSignatureMismatch}
                    /\ r.queries = 0
            /\ (Structured(vp) /\ RelaySigned(vp) /\ ~IssuerSigned(vp))
                 => /\ res \in {InvalidIssuerSignatureFormat,
                                IssuerSignatureMismatch}
                    /\ r.queries = 0
            /\ (Structured(vp) /\ RelaySigned(vp) /\ IssuerSigned(vp))
                 => \/ /\ res = IssuerNotTrusted /\ r.queries = 1
                       /\ issuer \notin trustedIssuers
                    \/ /\ res = CredentialNotIssued /\ r.queries = 2
                       /\ issuer \in trustedIssuers
                       /\ KeyOf(vp) \notin issuedCredentials
                    \/ /\ res = CredentialRevoked /\ r.queries = 3
                       /\ issuer \in trustedIssuers
                       /\ KeyOf(vp) \in issuedCredentials
                       /\ KeyOf(vp) \in revokedCredentials
                    \/ /\ res[1] = 200 /\ r.queries = 3
                       /\ issuer \in trustedIssuers
                       /\ KeyOf(vp) \in issuedCredentials
                       /\ KeyOf(vp) \notin revokedCredentials

\* r is a response of /revoke.
IsRevoke(r) == r # None /\ r[1].handler = "revoke"

\* C35: a hash given to /revoke with the prefix 0x is turned into the same
\* registry key as the hash without it and sent to the registry like it:
\* the only call answered before a transaction is sent is one that gives
\* no hash, and a success for either form has revoked the key of the hash.
C35_PrefixNormalizedAway ==
    /\ [][(/\ response = None
           /\ IsRevoke(response')
           /\ \A c \in IssuerCalls : issuerCalls[c].pc = "idle")
            => response'[1].req = None]_vars
    /\ [](IsRevoke(response) /\ response[1].body = RevokeSuccess
            => paddedHashBytes32(response[1].req[1]) \in revokedCredentials)

\* C36: a presentation built from a credential whose date of birth lies
\* after the day it is built on discloses over18 as false.
C36_FutureBirthNotOver18 ==
    \A x \in Disclosures :
        (/\ Has(DisclosedBy(x[1]), "over18")
         /\ BornOn(Get(x[2], "dob")) > Date_now(BuiltAt(x[1])))
          => Get(DisclosedBy(x[1]), "over18") = FALSE

\* The fields of a request record that a decision does not touch.
Immutable(reqObj) ==
    <<reqObj.id, reqObj.verifierId, reqObj.attributes, reqObj.issuerPublicKey,
      reqObj.createdAt>>
\* The fields a record has besides status, resolvedAt and vp.
OtherFields(reqObj) == DOMAIN reqObj \ {"status", "resolvedAt", "vp"}

\* C37: a step of the wallet leaves every request record in its place with
\* its id, verifierId, attributes, issuerPublicKey and createdAt, changing
\* at most status, resolvedAt and vp, and only of a record that was still
\* pending, so at most once per request; the credential store is not
\* changed by respond.
C37_RespondFrameAndOnce ==
    [][/\ \A i \in 1..Len(requests) :
             /\ requests'[i][1] = requests[i][1]
             /\ Immutable(requests'[i][2]) = Immutable(requests[i][2])
             /\ OtherFields(requests'[i][2]) = OtherFields(requests[i][2])
             /\ requests'[i] # requests[i]
                  => requests[i][2].status = "pending"
       /\ credentials' = credentials]_vars

\* The mapping a registry function writes, before and after the step.
Written(function) ==
    IF function = "registerIssuer" THEN <<trustedIssuers, trustedIssuers'>>
    ELSE IF function = "addCredential"
      THEN <<issuedCredentials, issuedCredentials'>>
    ELSE <<revokedCredentials, revokedCredentials'>>

\* C38: the three mappings of the registry only grow; an entry appears
\* exactly in the step in which the owner's transaction of the function for
\* it is mined, so a query answers true exactly when that write was
\* executed before; every credential the wallet stored stays trusted and
\* issued, whatever is revoked.
C38_RegistryMonotonic ==
    /\ [][/\ trustedIssuers \subseteq trustedIssuers'
          /\ issuedCredentials \subseteq issuedCredentials'
          /\ revokedCredentials \subseteq revokedCredentials']_vars
    /\ [][\A f \in {"registerIssuer", "addCredential", "revokeCredential"} :
             /\ Written(f)[2] # Written(f)[1]
                  => /\ IsReceipt(response')
                     /\ response'[1].body = Mined
                     /\ SenderOf(response') = owner
                     /\ FunctionOf(response') = f
                     /\ Written(f)[2] = Written(f)[1] \cup {ArgumentOf(response')}
             /\ (/\ response = None
                 /\ IsReceipt(response')
                 /\ SenderOf(response') = owner
                 /\ FunctionOf(response') = f)
                  => ArgumentOf(response') \in Written(f)[2]]_vars
    /\ [](\A i \in 1..Len(credentials) :
             /\ TrustedNow(credentials[i][2])
             /\ IssuedNow(credentials[i][2]))
C38_Witness ==
    \E i \in 1..Len(credentials) :
        /\ RevokedNow(credentials[i][2])
        /\ TrustedNow(credentials[i][2])
        /\ IssuedNow(credentials[i][2])

\* C39: no step removes a key of the request store or of the credential
\* store; the record under each request key has that key as its id and the
\* entry under each credential key has that key as its credentialHash.
C39_StoresAppendOnlyAndKeyed ==
    /\ [][/\ Keys(requests) \subseteq Keys(requests')
          /\ Keys(credentials) \subseteq Keys(credentials')
          /\ Len(requests') = Cardinality(Keys(requests'))
          /\ Len(credentials') = Cardinality(Keys(credentials'))]_vars
    /\ [](\A i \in 1..Len(requests) : requests[i][2].id = requests[i][1])
    /\ [](\A i \in 1..Len(credentials) :
             credentials[i][2].credentialHash = credentials[i][1])
C39_Witness ==
    /\ credentials # <<>>
    /\ \E i \in 1..Len(requests) : requests[i][2].status # "pending"

\* A /respond call on request id was answered that a registry call or the
\* signing failed.
FailedOn(id) ==
    /\ IsRespond(response)
    /\ response[1].body = RespondInternalError
    /\ response[1].req[1] = Some(id)

\* C40: a /respond call whose registry queries are answered comes to its
\* end with a response; when it approves a pending request that the stored
\* credential satisfies, the credential trusted, issued and not revoked,
\* the request ends up approved with a presentation attached, unless a
\* registry call failed.
C40_RespondCompletes ==
    /\ (respondCalls[Answering].pc # "idle")
         ~> (respondCalls[Answering].pc = "idle" /\ IsRespond(response))
    /\ \A id \in DeskPool :
         WorksOn(Answering, id)
           ~> \/ /\ Has(requests, id)
                 /\ StatusOf(id) = "approved"
                 /\ HasVp(Get(requests, id))
              \/ FailedOn(id)
C40_Witness ==
    \E id \in Keys(requests) :
        /\ StatusOf(id) = "approved"
        /\ HasVp(Get(requests, id))
        /\ IsRespond(response)
        /\ response[1].req = <<Some(id), "true">>
        /\ response[1].body[1] = 200
        /\ \E a \in RespondCalls \ {Answering} : BlockedOn(a, id)

====
